---- MODULE Spec2Model ----
(***************************************************************************)
(* A model of the Bases calendar view: the Calendar Adapter (CalendarView, *)
(* src/src/calendar-view.tsx) and the drag/resize handlers of the          *)
(* rendering component (CalendarReactView, src/unnamed/part_000).          *)
(*                                                                         *)
(* The host (Obsidian) is single threaded: every handler runs to its first *)
(* await without interleaving, and a promise continuation runs in a        *)
(* microtask right after the promise settles.  One action is therefore one *)
(* handler, or one host completion together with the continuations it      *)
(* resumes.                                                                *)
(***************************************************************************)
EXTENDS Integers, Sequences, FiniteSets, TLC

(***************************************************************************)
(* Bounds of the model.                                                    *)
(***************************************************************************)
\* Resolution of a Date: ticks per minute (a JS Date counts milliseconds;
\* the sub-minute ticks keep what Math.round and the HH:MM format drop).
TicksPerMinute == 4
\* Clock steps per debounce window.
TicksPerWindow == 3
\* Longest result set the host hands over.
MaxRecords == 2
\* Timer handles the host can have pending at once.
MaxTimers == 2
\* Event creations (handleCreateRange) that can be awaiting at once.
MaxPendingCreates == 1
\* Saturation of the per-burst pass counter.
MaxPassCount == 2
\* Drag/resize interactions in one behaviour.
MaxWriteBacks == 1
\* createEvent calls in one behaviour.
MaxCalls == 1

(***************************************************************************)
(* Program constants.                                                      *)
(***************************************************************************)
\* window.setTimeout(..., 120)
DebounceMs == 120

TickMs == DebounceMs \div TicksPerWindow

Min(a, b) == IF a <= b THEN a ELSE b
Max(a, b) == IF a >= b THEN a ELSE b

(***************************************************************************)
(* Dates.  A Date is a number of ticks of local time since                 *)
(* 2024-03-01 00:00:00; NoDate is `undefined` (newEnd?: Date).             *)
(***************************************************************************)
NoDate == -1

\* The local date of tick 0.
Epoch == [year |-> 2024, month |-> 3]

TicksPerDay == 24 * 60 * TicksPerMinute

\* new Date(2024, 2, 1 + day, h, m, 0) plus sub ticks
At(day, h, m, sub) == ((day * 24 + h) * 60 + m) * TicksPerMinute + sub

IsLeap(y) == (y % 4 = 0 /\ y % 100 # 0) \/ y % 400 = 0

MonthLen(y, m) ==
    IF m = 2 THEN (IF IsLeap(y) THEN 29 ELSE 28)
    ELSE IF m \in {4, 6, 9, 11} THEN 30 ELSE 31

\* The calendar date that lies `off` days after the first of month m of year y.
RECURSIVE CivilFrom(_, _, _)
CivilFrom(y, m, off) ==
    IF off < MonthLen(y, m)
    THEN [year |-> y, month |-> m, day |-> off + 1]
    ELSE IF m = 12 THEN CivilFrom(y + 1, 1, off - MonthLen(y, m))
         ELSE CivilFrom(y, m + 1, off - MonthLen(y, m))

getFullYear(t) == CivilFrom(Epoch.year, Epoch.month, t \div TicksPerDay).year
\* getMonth() + 1
getMonth1(t) == CivilFrom(Epoch.year, Epoch.month, t \div TicksPerDay).month
getDate(t) == CivilFrom(Epoch.year, Epoch.month, t \div TicksPerDay).day
getHours(t) == ((t % TicksPerDay) \div TicksPerMinute) \div 60
getMinutes(t) == ((t % TicksPerDay) \div TicksPerMinute) % 60

\* date.setHours(0, 0, 0, 0)
setHoursMidnight(t) == t - (t % TicksPerDay)

\* Variant that truncates instead of rounding.  C2_DurationRounded must
\* fail on it.
MathRoundDiv_Floor(x, y) == x \div y

\* Math.round(x / y) for y > 0: halves round towards plus infinity.
MathRoundDiv(x, y) == (2 * x + y) \div (2 * y)

\* Strings are sequences of characters.
DigitChars == <<"0", "1", "2", "3", "4", "5", "6", "7", "8", "9">>
Digits == {DigitChars[i] : i \in 1..10}
DigitValues == [c \in Digits |-> (CHOOSE i \in 1..10 : DigitChars[i] = c) - 1]
IsDigit(c) == c \in Digits
DigitVal(c) == DigitValues[c]

\* Number.prototype.toString of an integer
RECURSIVE NatToString(_)
NatToString(n) ==
    IF n < 10 THEN <<DigitChars[n + 1]>>
    ELSE Append(NatToString(n \div 10), DigitChars[(n % 10) + 1])

toString(n) == IF n < 0 THEN <<"-">> \o NatToString(0 - n) ELSE NatToString(n)

\* s.padStart(2, "0")
padStart(s) == IF Len(s) < 2 THEN <<"0">> \o s ELSE s

\* Variant without the padding.  C24_RoundTrip must fail on it.
formatDateTimeForFrontmatter_NoPad(t) ==
    toString(getFullYear(t)) \o <<"-">> \o toString(getMonth1(t))
        \o <<"-">> \o toString(getDate(t)) \o <<" ">>
        \o toString(getHours(t)) \o <<":">> \o toString(getMinutes(t))

\* `${year}-${month}-${day} ${hours}:${minutes}`: the year as String gives
\* it, the other four padded to two digits; seconds and below are not in
\* the text.
formatDateTimeForFrontmatter(t) ==
    toString(getFullYear(t)) \o <<"-">> \o padStart(toString(getMonth1(t)))
        \o <<"-">> \o padStart(toString(getDate(t))) \o <<" ">>
        \o padStart(toString(getHours(t))) \o <<":">>
        \o padStart(toString(getMinutes(t)))

(***************************************************************************)
(* Property identifiers (BasesPropertyId) and the host's parsePropertyId.  *)
(***************************************************************************)
NULL == "null"

NoteStart == "note.start"
FormulaStart == "formula.s"
NoteEnd == "note.end"
FormulaEnd == "formula.e"
NoteTitle == "note.title"
NoteAllDay == "note.allDay"
FormulaAllDay == "formula.a"

\* parsePropertyId(propId): the identifier's type and its name
parsePropertyId(propId) ==
    CASE propId = NoteStart -> [type |-> "note", name |-> "start"]
      [] propId = NoteEnd -> [type |-> "note", name |-> "end"]
      [] propId = NoteTitle -> [type |-> "note", name |-> "title"]
      [] propId = NoteAllDay -> [type |-> "note", name |-> "allDay"]
      [] propId = FormulaStart -> [type |-> "formula", name |-> "s"]
      [] propId = FormulaEnd -> [type |-> "formula", name |-> "e"]
      [] propId = FormulaAllDay -> [type |-> "formula", name |-> "a"]

\* getNoteField: the frontmatter key of a note property, null otherwise
getNoteField(propId) ==
    IF propId = NULL THEN NULL
    ELSE IF parsePropertyId(propId).type = "note"
         THEN parsePropertyId(propId).name
         ELSE NULL

\* Variant that looks at the start-date property only.  C15_EditableIff
\* must fail on it.
isEditableOf_StartOnly(sp, ep) ==
    sp # NULL /\ parsePropertyId(sp).type = "note"

\* isEditable, from the bound start and end properties
isEditableOf(sp, ep) ==
    IF sp = NULL THEN FALSE
    ELSE IF parsePropertyId(sp).type # "note" THEN FALSE
    ELSE IF ep = NULL THEN TRUE
    ELSE IF parsePropertyId(ep).type # "note" THEN FALSE
    ELSE TRUE

(***************************************************************************)
(* Host values (what entry.getValue yields) and host records (BasesEntry). *)
(***************************************************************************)
VDate(t) == [k |-> "date", t |-> t]     \* a DateValue holding a Date
VDateless == [k |-> "dateless"]         \* a DateValue without a Date
VString == [k |-> "string"]             \* a value that is no DateValue
VNull == [k |-> "null"]                 \* no value
VThrows == [k |-> "throws"]             \* the access throws

\* entry.getValue(propId).  A lookup of the null identifier names no
\* property: the host yields no value or throws, and every caller in the
\* view treats the two alike.
getValue(rec, propId) ==
    IF propId = NULL THEN VNull ELSE rec.vals[propId]

\* extractDate: the Date of a date-typed value, null (NoDate) otherwise; a
\* throwing access is caught and logged.
extractDate(rec, propId) ==
    LET value == getValue(rec, propId)
    IN  IF value.k = "throws" THEN NoDate
        ELSE IF value.k = "null" THEN NoDate
        ELSE IF value.k \notin {"date", "dateless"} THEN NoDate
        ELSE IF value.k = "date" THEN value.t
        ELSE NoDate

\* Variant of the loop without the `if (startDate)` test: every record is
\* pushed.  C1_EntriesHaveStart must fail on it.
RECURSIVE ExtractFrom_NoStartCheck(_, _, _, _, _, _)
ExtractFrom_NoStartCheck(d, i, acc, sp, ep, tp) ==
    IF i > Len(d) THEN [entries |-> acc, threw |-> FALSE]
    ELSE
      LET entry == d[i]
          title == IF tp # NULL THEN getValue(entry, tp) ELSE VNull
      IN  IF title.k = "throws"
          THEN [entries |-> acc, threw |-> TRUE]
          ELSE ExtractFrom_NoStartCheck(d, i + 1,
                 Append(acc, [path |-> entry.path,
                              startDate |-> extractDate(entry, sp),
                              endDate |-> IF ep # NULL
                                          THEN extractDate(entry, ep)
                                          ELSE NoDate,
                              title |-> title.k]),
                 sp, ep, tp)

\* The body of the extraction loop of updateCalendar and of the debounced
\* callback, from record i on; acc holds the entries pushed so far.  The
\* title lookup is outside every try: when it throws the loop ends there.
RECURSIVE ExtractFrom(_, _, _, _, _, _)
ExtractFrom(d, i, acc, sp, ep, tp) ==
    IF i > Len(d) THEN [entries |-> acc, threw |-> FALSE]
    ELSE
      LET entry == d[i]
          startDate == extractDate(entry, sp)
      IN  IF startDate = NoDate
          THEN ExtractFrom(d, i + 1, acc, sp, ep, tp)
          ELSE
            LET endDate == IF ep # NULL THEN extractDate(entry, ep) ELSE NoDate
                title == IF tp # NULL THEN getValue(entry, tp) ELSE VNull
            IN  IF title.k = "throws"
                THEN [entries |-> acc, threw |-> TRUE]
                ELSE ExtractFrom(d, i + 1,
                       Append(acc, [path |-> entry.path,
                                    startDate |-> startDate,
                                    endDate |-> endDate,
                                    title |-> title.k]),
                       sp, ep, tp)

ExtractEntries(d, sp, ep, tp) == ExtractFrom(d, 1, <<>>, sp, ep, tp)

(***************************************************************************)
(* Sample dates and sample host records.                                   *)
(***************************************************************************)
\* 2024-03-01 09:00
DateA == At(0, 9, 0, 0)
\* one tick (less than half a minute) past 09:00
DateASub == At(0, 9, 0, 1)
\* 2024-03-01 10:30
DateB == At(0, 10, 30, 0)
\* at least half a minute past 10:30
DateBHalf == At(0, 10, 30, (TicksPerMinute + 1) \div 2)
\* 2024-03-02 13:45
DateC == At(1, 13, 45, 0)

Rec(path, ns, fs, ne, ti) ==
    [path |-> path,
     vals |-> [p \in {NoteStart, FormulaStart, NoteEnd, FormulaEnd, NoteTitle} |->
                 CASE p = NoteStart -> ns
                   [] p = FormulaStart -> fs
                   [] p = NoteEnd -> ne
                   [] p = FormulaEnd -> fs
                   [] p = NoteTitle -> ti]]

\* Records whose start date resolves or fails to, in each way it can, under
\* one of the two start bindings (note.start, formula.s).
RecA == Rec("a.md", VDate(DateA), VString, VDate(DateB), VString)
RecB == Rec("b.md", VNull, VDate(DateA), VDateless, VNull)
RecC == Rec("c.md", VThrows, VDateless, VThrows, VString)
RecD == Rec("d.md", VDate(DateC), VThrows, VThrows, VThrows)

RecordPool == {RecA, RecB, RecC, RecD}
\* The notes whose frontmatter is followed: the one the write-backs are
\* for and one more.
Paths == {RecA.path, "w.md"}

\* Result sets: the sequences of distinct records, at most MaxRecords long.
RECURSIVE SeqsUpTo(_, _)
SeqsUpTo(S, n) ==
    IF n = 0 THEN {<<>>}
    ELSE LET shorter == SeqsUpTo(S, n - 1)
         IN  shorter \cup
             {Append(q, r) : q \in {x \in shorter : Len(x) = n - 1},
                             r \in S}

Distinct(q) == \A i, j \in 1..Len(q) : i # j => q[i].path # q[j].path

ResultSets(S) == {q \in SeqsUpTo(S, MaxRecords) : Distinct(q)}

(***************************************************************************)
(* View options: the condense level and the hour window.  A JS string is   *)
(* a sequence of one-character strings.                                    *)
(***************************************************************************)
\* MAX_CONDENSE_LEVEL, DEFAULT_CONDENSE_LEVEL (utils.ts)
MAX_CONDENSE_LEVEL == 220
DEFAULT_CONDENSE_LEVEL == 80

\* JS values: a number, NaN, undefined; what localStorage.getItem returns.
Num(n) == [k |-> "num", n |-> n]
NaN == [k |-> "NaN"]
Undefined == [k |-> "undefined"]
Item(s) == [k |-> "str", s |-> s]
NoItem == [k |-> "null"]


\* Variant that lets every level through.  C12_CondenseClamped must fail
\* on it.
normalizeCondenseLevel_NoClamp(value) == value

\* normalizeCondenseLevel
normalizeCondenseLevel(value) == Max(0, Min(MAX_CONDENSE_LEVEL, value))

\* The value of the longest run of digits of s from position i on, and
\* the position after it.
RECURSIVE DigitRun(_, _, _)
DigitRun(s, i, acc) ==
    IF i <= Len(s) /\ IsDigit(s[i])
    THEN DigitRun(s, i + 1, 10 * acc + DigitVal(s[i]))
    ELSE [n |-> acc, next |-> i]

\* parseInt(s, 10): leading blanks, an optional sign, then digits; what
\* follows the digits is ignored; NaN when there is no digit.
parseInt(s) ==
    LET blanks == {i \in 1..Len(s) : \A j \in 1..i : s[j] = " "}
        from == Cardinality(blanks) + 1
        signed == from <= Len(s) /\ s[from] \in {"-", "+"}
        first == IF signed THEN from + 1 ELSE from
        run == DigitRun(s, first, 0)
    IN  IF run.next = first THEN NaN
        ELSE IF signed /\ s[from] = "-" THEN Num(0 - run.n)
        ELSE Num(run.n)


\* Variant that ignores the cache.  C13_CondensePrecedence must fail on
\* it.
getCondenseLevelFromStorage_Default(stored) == DEFAULT_CONDENSE_LEVEL

\* getCondenseLevelFromStorage, on what localStorage.getItem returns
getCondenseLevelFromStorage(stored) ==
    IF stored # NoItem /\ parseInt(stored.s) # NaN
    THEN normalizeCondenseLevel(parseInt(stored.s).n)
    ELSE DEFAULT_CONDENSE_LEVEL

\* loadConfig, condense level: the view configuration's value, else the
\* cached one
loadCondenseLevel(configCondenseLevel, stored) ==
    IF configCondenseLevel # Undefined
    THEN normalizeCondenseLevel(configCondenseLevel.n)
    ELSE getCondenseLevelFromStorage(stored)

\* [0-5][0-9] at positions i, i + 1 of s
IsSexagesimal(s, i) ==
    /\ i + 1 <= Len(s)
    /\ s[i] \in {"0", "1", "2", "3", "4", "5"}
    /\ IsDigit(s[i + 1])

\* ([0-1]?[0-9]|2[0-3]) on the first n characters of s
IsHourPart(s, n) ==
    /\ n <= Len(s)
    /\ \/ n = 1 /\ IsDigit(s[1])
       \/ n = 2 /\ s[1] \in {"0", "1"} /\ IsDigit(s[2])
       \/ n = 2 /\ s[1] = "2" /\ s[2] \in {"0", "1", "2", "3"}

\* timeRegex.test(value):
\* /^([0-1]?[0-9]|2[0-3]):[0-5][0-9](:[0-5][0-9])?$/
timeRegexTest(s) ==
    \E n \in {1, 2} :
       /\ IsHourPart(s, n)
       /\ Len(s) \in {n + 3, n + 6}
       /\ s[n + 1] = ":"
       /\ IsSexagesimal(s, n + 2)
       /\ Len(s) = n + 6 => s[n + 4] = ":" /\ IsSexagesimal(s, n + 5)

\* normalizeHour
normalizeHour(value) ==
    IF value = <<>> THEN <<>>
    ELSE IF ~timeRegexTest(value) THEN <<>>
    ELSE value

\* getSlotRange
getSlotRange(minH, maxH) ==
    [min |-> IF minH # <<>> THEN minH ELSE <<"0", "0", ":", "0", "0">>,
     max |-> IF maxH # <<>> THEN maxH ELSE <<"2", "4", ":", "0", "0">>]

\* DEFAULT_SLOT_MIN_TIME, DEFAULT_SLOT_MAX_TIME (component)
DEFAULT_SLOT_MIN_TIME == <<"0", "0", ":", "0", "0", ":", "0", "0">>
DEFAULT_SLOT_MAX_TIME == <<"2", "4", ":", "0", "0", ":", "0", "0">>

(***************************************************************************)
(* NewEventService: text.  A string is a sequence of tokens: a word (no    *)
(* blank, no dash, no colon in it), a blank, a line break, a colon, a run  *)
(* of three dashes, a date suffix, a counter.  Two strings are equal       *)
(* exactly when their token sequences are.                                 *)
(***************************************************************************)
Word(s) == [t |-> "word", s |-> s]
Space == [t |-> " "]
Newline == [t |-> "\n"]
Colon == [t |-> ":"]
Dashes == [t |-> "---"]
\* `${year}-${month}-${day}` with two-digit padding: the three numbers
DateSuffix(y, m, d) == [t |-> "date", ymd |-> <<y, m, d>>]
\* `${counter}`
Counter(n) == [t |-> "counter", n |-> n]
\* formatDateTimeForFrontmatter(date) as a piece of text
Stamp(v) == [t |-> "stamp", v |-> v]
Ext == Word(".md")

IsBlank(tok) == tok \in {Space, Newline}

\* String.prototype.trimStart / trimEnd / trim
RECURSIVE trimStart(_)
trimStart(s) ==
    IF s = <<>> \/ ~IsBlank(Head(s)) THEN s ELSE trimStart(Tail(s))

RECURSIVE trimEnd(_)
trimEnd(s) ==
    IF s = <<>> \/ ~IsBlank(s[Len(s)]) THEN s
    ELSE trimEnd(SubSeq(s, 1, Len(s) - 1))

trim(s) == trimEnd(trimStart(s))

\* s.indexOf("---", from): the position of the first run of three dashes at
\* or after token `from`, 0 when there is none (-1 in the code)
indexOfDashes(s, from) ==
    IF \E i \in from..Len(s) : s[i] = Dashes
    THEN CHOOSE i \in from..Len(s) :
           /\ s[i] = Dashes
           /\ \A j \in from..(i - 1) : s[j] # Dashes
    ELSE 0

\* The lines of a text.
RECURSIVE Lines(_, _, _)
Lines(s, i, cur) ==
    IF i > Len(s) THEN <<cur>>
    ELSE IF s[i] = Newline THEN <<cur>> \o Lines(s, i + 1, <<>>)
    ELSE Lines(s, i + 1, Append(cur, s[i]))

\* An object is the sequence of its [key, value] pairs in insertion order.
\* obj[key] = value: replaces the value of an existing key, else appends.
Assign(obj, key, value) ==
    IF \E i \in 1..Len(obj) : obj[i].key = key
    THEN LET at == CHOOSE i \in 1..Len(obj) : obj[i].key = key
         IN  SubSeq(obj, 1, at - 1) \o <<[key |-> key, value |-> value]>>
               \o SubSeq(obj, at + 1, Len(obj))
    ELSE Append(obj, [key |-> key, value |-> value])

\* Object.assign(target, source)
RECURSIVE ObjectAssign(_, _)
ObjectAssign(target, source) ==
    IF source = <<>> THEN target
    ELSE ObjectAssign(Assign(target, Head(source).key, Head(source).value),
                      Tail(source))

\* parseYaml of a mapping of `key: value` lines; other lines are skipped
\* (the sample templates have none in their frontmatter).
RECURSIVE parseYamlLines(_, _)
parseYamlLines(ls, obj) ==
    IF ls = <<>> THEN obj
    ELSE LET l == Head(ls)
         IN  IF /\ Len(l) >= 4
                /\ l[1].t = "word"
                /\ l[2] = Colon
                /\ l[3] = Space
             THEN parseYamlLines(Tail(ls),
                      Assign(obj, l[1].s, SubSeq(l, 4, Len(l))))
             ELSE parseYamlLines(Tail(ls), obj)

parseYaml(fmRaw) == parseYamlLines(Lines(fmRaw, 1, <<>>), <<>>)

\* stringifyYaml: one `key: value` line per pair
RECURSIVE stringifyYaml(_)
stringifyYaml(obj) ==
    IF obj = <<>> THEN <<>>
    ELSE <<Word(Head(obj).key), Colon, Space>> \o Head(obj).value
           \o <<Newline>> \o stringifyYaml(Tail(obj))

\* noteField: the frontmatter key of a note property (the name
\* parsePropertyId gives it, read here as parsed.property); any other
\* property identifier is returned as it is.
noteField(propId) ==
    IF propId = NULL THEN NULL
    ELSE IF parsePropertyId(propId).type = "note"
         THEN parsePropertyId(propId).name
         ELSE propId

\* NewEventService.isAllDay(start, end)
serviceIsAllDay(start, end) ==
    /\ getHours(start) = 0
    /\ getMinutes(start) = 0
    /\ getHours(end) = 0
    /\ getMinutes(end) = 0

\* buildFrontmatter(title, start, end) under the service's configuration
buildFrontmatter(title, start, end, sp, ep, adp) ==
    LET startField == noteField(sp)
        endField == noteField(ep)
        allDayField == IF noteField(adp) # NULL THEN noteField(adp)
                       ELSE "allDay"
        r0 == <<[key |-> "title", value |-> title]>>
        r1 == IF startField # NULL
              THEN Assign(r0, startField,
                          <<Stamp(formatDateTimeForFrontmatter(start))>>)
              ELSE r0
        r2 == IF endField # NULL
              THEN Assign(r1, endField,
                          <<Stamp(formatDateTimeForFrontmatter(end))>>)
              ELSE r1
    IN  Assign(r2, allDayField,
               <<Word(IF serviceIsAllDay(start, end) THEN "true" ELSE "false")>>)

\* The template that was not loaded: loadTemplate returned null.
NoTemplate == [loaded |-> FALSE]
Template(text) == [loaded |-> TRUE, text |-> text]

\* buildNoteContent(templateContent, fields)
buildNoteContent(templateContent, fields) ==
    LET tpl == IF templateContent.loaded THEN templateContent.text ELSE <<>>
        trimmed == trimStart(tpl)
        end == indexOfDashes(trimmed, 2)
        fmRaw == trim(SubSeq(trimmed, 2, end - 1))
        body == trimStart(SubSeq(trimmed, end + 1, Len(trimmed)))
        fmObj == IF fmRaw # <<>> THEN parseYaml(fmRaw) ELSE <<>>
    IN  IF trimmed # <<>> /\ Head(trimmed) = Dashes /\ end # 0
        THEN <<Dashes, Newline>> \o stringifyYaml(ObjectAssign(fmObj, fields))
               \o <<Dashes, Newline, Newline>> \o body
        ELSE <<Dashes, Newline>> \o stringifyYaml(fields)
               \o <<Dashes, Newline, Newline>> \o tpl

\* `${title}.md`, `${title} ${dateSuffix}.md`,
\* `${title} ${dateSuffix} ${counter}.md` in the destination folder
basePath(title) == title \o <<Ext>>
datedPath(title, date) ==
    title \o <<Space, DateSuffix(getFullYear(date), getMonth1(date),
                                 getDate(date))>> \o <<Ext>>
countedPath(title, date, counter) ==
    title \o <<Space, DateSuffix(getFullYear(date), getMonth1(date),
                                 getDate(date)), Space, Counter(counter)>>
          \o <<Ext>>

\* The while loop of buildUniquePath over the paths that exist.
RECURSIVE whileExists(_, _, _, _, _)
whileExists(path, counter, title, date, existing) ==
    IF path \in existing
    THEN whileExists(countedPath(title, date, counter), counter + 1, title,
                     date, existing)
    ELSE path

\* Variant that takes the dated path without looking whether it exists.
buildUniquePath_NoLoop(title, date, existing) ==
    IF basePath(title) \notin existing THEN basePath(title)
    ELSE datedPath(title, date)

\* buildUniquePath(folderPath, title, date): getAbstractFileByPath(path) is
\* `path \in existing`
buildUniquePath(title, date, existing) ==
    IF basePath(title) \notin existing THEN basePath(title)
    ELSE whileExists(datedPath(title, date), 1, title, date, existing)

\* `!title || !title.trim()` in createEvent
titleRejected_Never(title) == FALSE

titleRejected(title) == title = Undefined \/ trim(title.text) = <<>>

\* What the modal resolves with on Enter or submit:
\* input.value.trim() || undefined
Text(s) == [text |-> s]
submitted(inputValue) ==
    IF trim(inputValue) = <<>> THEN Undefined ELSE Text(trim(inputValue))

\* No createEvent call yet.
IdleCall ==
    [pc |-> "idle", start |-> NoDate, end |-> NoDate, title |-> Undefined,
     path |-> <<>>, seen |-> {}, reads |-> 0, content |-> <<>>,
     template |-> NoTemplate, result |-> "none", calls |-> 0,
     typed |-> Undefined, before |-> {}]

\* No second createEvent call yet.
NoOverlap ==
    [pc |-> "idle", start |-> NoDate, end |-> NoDate, title |-> Undefined,
     path |-> <<>>, content |-> <<>>, result |-> "none"]

NoFile == [exists |-> FALSE]
TFile(text) == [exists |-> TRUE, text |-> text]

(***************************************************************************)
(* Style maps: parseStyleMapping and the built-in defaults.  A map is an  *)
(* object whose keys and values are texts.                                 *)
(***************************************************************************)
Comma == [t |-> ","]
Semicolon == [t |-> ";"]

Key(s) == <<Word(s)>>
Entry(k, v) == [key |-> Key(k), value |-> <<Word(v)>>]

DEFAULT_PRIORITY_COLOR_MAP ==
    <<Entry("low", "#9ca3af"), Entry("normal", "#60a5fa"),
      Entry("medium", "#facc15"), Entry("high", "#f87171")>>

DEFAULT_STATUS_STYLE_MAP ==
    <<Entry("open", "normal"), Entry("complete", "strikethrough"),
      Entry("wont-do", "strikethrough"), Entry("working", "bold"),
      Entry("blocked", "italic")>>

\* String.prototype.toLowerCase, word by word
LowerWord(s) ==
    CASE s = "LOW" -> "low"
      [] s = "High" -> "high"
      [] s = "Open" -> "open"
      [] OTHER -> s

RECURSIVE toLowerCase(_)
toLowerCase(text) ==
    IF text = <<>> THEN <<>>
    ELSE <<IF Head(text).t = "word" THEN Word(LowerWord(Head(text).s))
           ELSE Head(text)>> \o toLowerCase(Tail(text))

\* text.split(separator): the pieces between the tokens of `seps`
RECURSIVE SplitAt(_, _, _, _)
SplitAt(s, seps, i, cur) ==
    IF i > Len(s) THEN <<cur>>
    ELSE IF s[i] \in seps THEN <<cur>> \o SplitAt(s, seps, i + 1, <<>>)
    ELSE SplitAt(s, seps, i + 1, Append(cur, s[i]))

split(s, seps) == SplitAt(s, seps, 1, <<>>)

\* JS values handed to parseStyleMapping: undefined, null, a string, a
\* plain object (its entries: a key and a string or a number), an array of
\* strings.
Null == [k |-> "null"]
Str(text) == [k |-> "string", text |-> text]
Obj(ents) == [k |-> "object", entries |-> ents]
Arr(items) == [k |-> "array", items |-> items]

\* !value
IsFalsy(value) ==
    \/ value \in {Undefined, Null}
    \/ value = Str(<<>>)
    \/ value = Num(0)

\* String(value) of a string or of an array of strings
RECURSIVE JoinComma(_)
JoinComma(items) ==
    IF items = <<>> THEN <<>>
    ELSE IF Len(items) = 1 THEN Head(items)
    ELSE Head(items) \o <<Comma>> \o JoinComma(Tail(items))

StringOf(value) ==
    IF value.k = "array" THEN JoinComma(value.items) ELSE value.text

\* The loop over Object.entries(value)
RECURSIVE MergeEntries(_, _)
MergeEntries(map, ents) ==
    IF ents = <<>> THEN map
    ELSE LET e == Head(ents)
         IN  IF e.value # Undefined /\ e.value.k = "string"
                /\ trim(e.value.text) # <<>>
             THEN MergeEntries(Assign(map, toLowerCase(e.key),
                                      trim(e.value.text)), Tail(ents))
             ELSE MergeEntries(map, Tail(ents))

\* The loop over the entries of the delimited string
RECURSIVE MergeSegments(_, _)
MergeSegments(map, segs) ==
    IF segs = <<>> THEN map
    ELSE LET entry == trim(Head(segs))
             parts == split(entry, {Colon})
             key == trim(parts[1])
             mapped == IF Len(parts) >= 2 THEN trim(parts[2]) ELSE <<>>
         IN  IF entry = <<>> \/ key = <<>> \/ mapped = <<>>
             THEN MergeSegments(map, Tail(segs))
             ELSE MergeSegments(Assign(map, toLowerCase(key), mapped),
                                Tail(segs))

\* Variant that starts the delimited-string case from an empty map.
parseStyleMapping_NoDefaults(value, defaults) ==
    IF IsFalsy(value) THEN defaults
    ELSE IF value.k = "object" THEN MergeEntries(defaults, value.entries)
    ELSE MergeSegments(<<>>, split(StringOf(value),
                                   {Comma, Semicolon, Newline}))

\* parseStyleMapping(value, defaults)
parseStyleMapping(value, defaults) ==
    IF IsFalsy(value) THEN defaults
    ELSE IF value.k = "object" THEN MergeEntries(defaults, value.entries)
    ELSE MergeSegments(defaults, split(StringOf(value),
                                       {Comma, Semicolon, Newline}))

\* A map as the plain object it is, for parseStyleMapping to read back.
RECURSIVE EntriesOf(_)
EntriesOf(map) ==
    IF map = <<>> THEN <<>>
    ELSE <<[key |-> Head(map).key, value |-> Str(Head(map).value)]>>
           \o EntriesOf(Tail(map))

AsObject(map) == Obj(EntriesOf(map))

\* What loadData resolves with: null, or an object with some of the keys.
NoStored == [present |-> FALSE]
Stored(pc, pcm, ss, ssm) ==
    [present |-> TRUE, priorityColors |-> pc, priorityColorMap |-> pcm,
     statusStyles |-> ss, statusStyleMap |-> ssm]

\* stored?.a ?? stored?.b ?? ""
Coalesce(stored, a, b) ==
    IF ~stored.present THEN Str(<<>>)
    ELSE IF a \notin {Undefined, Null} THEN a
    ELSE IF b \notin {Undefined, Null} THEN b
    ELSE Str(<<>>)

\* The plugin's settings field initialiser.
DefaultSettings ==
    [priorityColors |-> DEFAULT_PRIORITY_COLOR_MAP,
     statusStyles |-> DEFAULT_STATUS_STYLE_MAP]

(***************************************************************************)
(* Numbers.  A JS number is an IEEE 754 double: zero, or a 53-bit          *)
(* mantissa m and an exponent e standing for m * 2^e; every operation      *)
(* rounds its exact result to the nearest double, ties to even.  The       *)
(* mantissas are wider than the checker's integers, so an unsigned integer *)
(* is the sequence of its digits in base LimbBase, lowest first, without   *)
(* leading zeros.                                                          *)
(***************************************************************************)
LimbBits == 14
LimbBase == 2^LimbBits
MantissaBits == 53

RECURSIVE Strip(_)
Strip(x) ==
    IF x = <<>> \/ x[Len(x)] # 0 THEN x ELSE Strip(SubSeq(x, 1, Len(x) - 1))

Big(n) == Strip(<<n % LimbBase, n \div LimbBase>>)

Limb(x, i) == IF i <= Len(x) THEN x[i] ELSE 0

RECURSIVE AddFrom(_, _, _, _)
AddFrom(x, y, i, carry) ==
    IF i > Len(x) /\ i > Len(y)
    THEN IF carry = 0 THEN <<>> ELSE <<carry>>
    ELSE LET sum == Limb(x, i) + Limb(y, i) + carry
         IN  <<sum % LimbBase>> \o AddFrom(x, y, i + 1, sum \div LimbBase)

AddBig(x, y) == Strip(AddFrom(x, y, 1, 0))

\* x - y for x >= y
RECURSIVE SubFrom(_, _, _, _)
SubFrom(x, y, i, borrow) ==
    IF i > Len(x) THEN <<>>
    ELSE LET diff == Limb(x, i) - Limb(y, i) - borrow
         IN  IF diff < 0
             THEN <<diff + LimbBase>> \o SubFrom(x, y, i + 1, 1)
             ELSE <<diff>> \o SubFrom(x, y, i + 1, 0)

SubBig(x, y) == Strip(SubFrom(x, y, 1, 0))

\* x * d for a digit or a small factor d
RECURSIVE MulSmallFrom(_, _, _, _)
MulSmallFrom(x, d, i, carry) ==
    IF i > Len(x)
    THEN IF carry = 0 THEN <<>> ELSE <<carry>>
    ELSE LET prod == x[i] * d + carry
         IN  <<prod % LimbBase>>
               \o MulSmallFrom(x, d, i + 1, prod \div LimbBase)

MulSmall(x, d) == Strip(MulSmallFrom(x, d, 1, 0))

RECURSIVE MulBig(_, _)
MulBig(x, y) ==
    IF y = <<>> \/ x = <<>> THEN <<>>
    ELSE AddBig(MulSmall(x, Head(y)), Strip(<<0>> \o MulBig(x, Tail(y))))

\* x divided by a small d: quotient and remainder, from the highest digit
RECURSIVE DivSmallFrom(_, _, _, _)
DivSmallFrom(x, d, i, rem) ==
    IF i = 0 THEN [q |-> <<>>, r |-> rem]
    ELSE LET cur == rem * LimbBase + x[i]
             rest == DivSmallFrom(x, d, i - 1, cur % d)
         IN  [q |-> Append(rest.q, cur \div d), r |-> rest.r]

DivSmall(x, d) ==
    LET res == DivSmallFrom(x, d, Len(x), 0)
    IN  [q |-> Strip(res.q), r |-> res.r]

\* -1, 0, 1 as x is below, equal to, above y
RECURSIVE CmpFrom(_, _, _)
CmpFrom(x, y, i) ==
    IF i = 0 THEN 0
    ELSE IF x[i] < y[i] THEN 0 - 1
    ELSE IF x[i] > y[i] THEN 1
    ELSE CmpFrom(x, y, i - 1)

CmpBig(x, y) ==
    IF Len(x) < Len(y) THEN 0 - 1
    ELSE IF Len(x) > Len(y) THEN 1
    ELSE CmpFrom(x, y, Len(x))

RECURSIVE BitsOf(_)
BitsOf(n) == IF n = 0 THEN 0 ELSE 1 + BitsOf(n \div 2)

BitLen(x) ==
    IF x = <<>> THEN 0 ELSE (Len(x) - 1) * LimbBits + BitsOf(x[Len(x)])

\* x * 2^n and floor(x / 2^n)
ShiftLeft(x, n) ==
    IF x = <<>> THEN <<>>
    ELSE [i \in 1..(n \div LimbBits) |-> 0] \o MulSmall(x, 2^(n % LimbBits))

ShiftRight(x, n) ==
    IF n \div LimbBits >= Len(x) THEN <<>>
    ELSE DivSmall(SubSeq(x, n \div LimbBits + 1, Len(x)), 2^(n % LimbBits)).q

IsOdd(x) == x # <<>> /\ x[1] % 2 = 1

Zero == [m |-> <<>>, e |-> 0]

\* The double nearest to p * 2^e (plus a little, when `sticky`), ties to
\* even.
RoundNearestEven(p, e, sticky) ==
    LET len == BitLen(p)
    IN  IF p = <<>> THEN Zero
        ELSE IF len <= MantissaBits
        THEN [m |-> ShiftLeft(p, MantissaBits - len),
              e |-> e - (MantissaBits - len)]
        ELSE LET t == len - MantissaBits
                 q1 == ShiftRight(p, t - 1)
                 lost == sticky \/ CmpBig(ShiftLeft(q1, t - 1), p) # 0
                 down == ShiftRight(q1, 1)
                 up == IsOdd(q1) /\ (lost \/ IsOdd(down))
                 m == IF up THEN AddBig(down, Big(1)) ELSE down
             IN  IF BitLen(m) > MantissaBits
                 THEN [m |-> ShiftRight(m, 1), e |-> e + t + 1]
                 ELSE [m |-> m, e |-> e + t]

\* a / b for integers 0 <= a, 0 < b below LimbBase
DivInt(a, b) ==
    LET res == DivSmall(ShiftLeft(Big(a), 5 * LimbBits), b)
    IN  RoundNearestEven(res.q, 0 - 5 * LimbBits, res.r # 0)

\* x * y
MulNum(x, y) == RoundNearestEven(MulBig(x.m, y.m), x.e + y.e, FALSE)

\* The two mantissas of x and y over their lower exponent.
Aligned(x, y) ==
    LET e == IF x.m = <<>> THEN y.e
             ELSE IF y.m = <<>> THEN x.e
             ELSE Min(x.e, y.e)
    IN  [x |-> ShiftLeft(x.m, x.e - e), y |-> ShiftLeft(y.m, y.e - e),
         e |-> e]

\* x - y for x >= y >= 0
SubNum(x, y) ==
    LET a == Aligned(x, y)
    IN  RoundNearestEven(SubBig(a.x, a.y), a.e, FALSE)

\* x <= y for x, y >= 0
LeqNum(x, y) ==
    LET a == Aligned(x, y)
    IN  CmpBig(a.x, a.y) <= 0

\* The literals 0.1 and 0.5: the doubles nearest to 1/10 and 1/2.
MIN_SLOT_ZOOM == DivInt(1, 10)
MAX_SLOT_ZOOM == DivInt(1, 2)

\* calculateSlotZoom(condenseLevel)
calculateSlotZoom(level) ==
    LET safeLevel == Max(0, Min(MAX_CONDENSE_LEVEL, level))
        range == SubNum(MAX_SLOT_ZOOM, MIN_SLOT_ZOOM)
    IN  SubNum(MAX_SLOT_ZOOM,
               MulNum(DivInt(safeLevel, MAX_CONDENSE_LEVEL), range))

(***************************************************************************)
(* State.                                                                  *)
(***************************************************************************)
VARIABLES
    phase,            \* the component's lifecycle: constructed, loaded, unloaded
    startDateProp,    \* this.startDateProp
    endDateProp,      \* this.endDateProp
    titleProp,        \* this.titleProp
    allDayProperty,   \* this.allDayProperty
    data,             \* this.data: the host's current result set
    entries,          \* this.entries: the working set
    root,             \* this.root: NULL or the handle of the React root
    refreshTimeout,   \* this.refreshTimeout: NoTimeout or a timer handle
    timers,           \* the host's pending timers: {[id, left]}
    mountedRoots,     \* React roots mounted on containerEl
    pendingProps,     \* props of the latest root.render not yet committed
    ui,               \* props the mounted component was last committed with
    emptyPrompt,      \* containerEl shows the empty-state prompt
    creates,          \* handleCreateRange calls awaiting createEvent
    frontmatter,      \* the notes' frontmatter, by path
    wb,               \* the drag/resize write-back in progress, or the last one
    fmBefore,         \* frontmatter when that write-back began
    writeBacks,       \* drag/resize interactions so far
    lastPass,         \* what the latest updateCalendar/refresh callback did
    sinceNotif,       \* ms since the latest notification of a tracked file
    notifsInBurst,    \* notifications of the current burst (history)
    passesInBurst,    \* debounced passes since the current burst began
    refreshDelay,     \* sinceNotif when the latest debounced pass ran
    afterUnload,      \* what happened after onunload (history)
    config,           \* this.config: condenseLevel, minHour, maxHour
    condenseLevel,    \* this.condenseLevel
    minHour,          \* this.minHour
    maxHour,          \* this.maxHour
    storage,          \* localStorage.getItem(condenseStorageKey)
    lastZoom,         \* level the user last chose with the slider (history)
    files,            \* the vault's files in the destination folder
    templatePath,     \* config.templatePath of the new-event service
    templateFile,     \* the file at templatePath, if any
    ce,               \* the createEvent call in progress, or the last one
    ce2,              \* a second createEvent call, overlapping the first
    settings,         \* the plugin's settings: priorityColors, statusStyles
    menu,             \* the latest context-menu request and what it showed
    prompt            \* the title prompt of the latest createEvent call

cfgVars == <<startDateProp, endDateProp, titleProp, allDayProperty>>
domVars == <<root, mountedRoots, pendingProps, ui, emptyPrompt>>
timerVars == <<refreshTimeout, timers>>
writeVars == <<frontmatter, wb, fmBefore, writeBacks>>
histVars == <<sinceNotif, notifsInBurst, passesInBurst, refreshDelay,
              afterUnload>>

viewVars == <<config, condenseLevel, minHour, maxHour, storage, lastZoom>>
svcVars == <<files, templatePath, templateFile, ce, ce2>>
uiVars == <<settings, menu, prompt>>

vars == <<phase, cfgVars, data, entries, domVars, timerVars, creates,
          writeVars, lastPass, histVars, viewVars, svcVars, uiVars>>

\* this.refreshTimeout = null
NoTimeout == 0

\* What the two getters return while the settings are the initial ones
\* (the same parse, evaluated once).
ParsedDefaultPriorityColors ==
    parseStyleMapping(AsObject(DefaultSettings.priorityColors),
                      DEFAULT_PRIORITY_COLOR_MAP)
ParsedDefaultStatusStyles ==
    parseStyleMapping(AsObject(DefaultSettings.statusStyles),
                      DEFAULT_STATUS_STYLE_MAP)

NoProps == [set |-> FALSE]
\* plugin.getPriorityColorMap(), plugin.getStatusStyleMap()
getPriorityColorMap ==
    IF settings.priorityColors = DefaultSettings.priorityColors
    THEN ParsedDefaultPriorityColors
    ELSE parseStyleMapping(AsObject(settings.priorityColors),
                           DEFAULT_PRIORITY_COLOR_MAP)
getStatusStyleMap ==
    IF settings.statusStyles = DefaultSettings.statusStyles
    THEN ParsedDefaultStatusStyles
    ELSE parseStyleMapping(AsObject(settings.statusStyles),
                           DEFAULT_STATUS_STYLE_MAP)

Props(ed) ==
    [set |-> TRUE, editable |-> ed, priorityColorMap |-> getPriorityColorMap,
     statusStyleMap |-> getStatusStyleMap]

(***************************************************************************)
(* Frontmatter values.                                                     *)
(***************************************************************************)
FAbsent == [k |-> "absent"]
FStr(x) == [k |-> "str", s |-> x]
FNum(n) == [k |-> "num", n |-> n]
FBool(b) == [k |-> "bool", b |-> b]

Fields == {"start", "end", "duration", "allDay", "title"}

InitialFm(dur) ==
    [f \in Fields |->
        CASE f = "start" -> FStr(formatDateTimeForFrontmatter(DateA))
          [] f = "duration" -> dur
          [] f = "title" -> FStr(<<>>)
          [] OTHER -> FAbsent]

\* A write-back: the interaction (kind, via, path, argStart, argEnd,
\* allDay; eventAllDay is the widget event's allDay after a drag), what updateEntryDates was called with and captured (newStart,
\* newEnd, startField, endField, allDayField), the transactions still to
\* run (plan), and what has happened so far.
IdleWb ==
    [pc |-> "idle", kind |-> "none", via |-> "none", path |-> "none",
     argStart |-> NoDate, argEnd |-> NoDate, allDay |-> "undefined",
     eventAllDay |-> "undefined",
     newStart |-> NoDate, newEnd |-> NoDate,
     startField |-> NULL, endField |-> NULL, allDayField |-> NULL,
     endPropAtTx |-> NULL, plan |-> <<>>,
     outcome |-> "none", txCalls |-> 0, reverts |-> 0,
     log |-> {}, written |-> {}, visual |-> "original"]

\* The view configuration with no condense level and no hour window set.
NoOptions == [condenseLevel |-> Undefined, minHour |-> <<>>, maxHour |-> <<>>]

NoHistory == [refreshRan |-> FALSE, cancelled |-> FALSE, mounted |-> FALSE]

\* The title prompt: the modal, the `resolved` flag and the focusLoop
\* handle of its onOpen, how often resolve was called and the value the
\* promise took, whether service.modalInput refers to the input, and
\* whether an event arrived after the resolution (history).
NoPrompt ==
    [modal |-> "none", resolved |-> FALSE, resolveCalls |-> 0,
     value |-> Undefined, focusLoop |-> "none", modalInput |-> FALSE,
     late |-> FALSE]

\* modal.open() runs onOpen: the interval is started and the service
\* keeps the input.
onOpen ==
    [NoPrompt EXCEPT !.modal = "open", !.focusLoop = "running",
                     !.modalInput = TRUE]

\* Variant without the `if (resolved) return`.
finish_NoGuard(p, value) ==
    [p EXCEPT !.resolved = TRUE,
              !.focusLoop = IF @ = "none" THEN @ ELSE "cleared",
              !.modalInput = FALSE,
              !.resolveCalls = Min(2, @ + 1),
              !.value = IF p.resolveCalls = 0 THEN value ELSE @,
              !.modal = "closed"]

\* finish(value): once only; clears the interval, drops the service's
\* reference, resolves the promise (whose first resolution counts) and
\* closes the modal.
finish(p, value) ==
    IF p.resolved THEN p
    ELSE [p EXCEPT !.resolved = TRUE,
                   !.focusLoop = IF @ = "none" THEN @ ELSE "cleared",
                   !.modalInput = FALSE,
                   !.resolveCalls = Min(2, @ + 1),
                   !.value = IF p.resolveCalls = 0 THEN value ELSE @,
                   !.modal = "closed"]

\* The handlers of the prompt: Enter and the form's submit finish with
\* the input's trimmed text or undefined, Escape and the Cancel button
\* with undefined, and onClose finishes with undefined unless resolved.
PromptEvents == {"Enter", "Escape", "submit", "Cancel", "close"}

promptHandler(p, ev, inputValue) ==
    CASE ev \in {"Enter", "submit"} -> finish(p, submitted(inputValue))
      [] ev \in {"Escape", "Cancel"} -> finish(p, Undefined)
      [] OTHER -> IF ~p.resolved THEN finish(p, Undefined) ELSE p

\* No context-menu request yet.
NoMenu ==
    [path |-> NULL, gcm |-> "absent", controllerMenus |-> 0,
     defaultMenus |-> 0, items |-> <<>>, log |-> {}, thrown |-> FALSE]

InitAll(durs, stores, vaults, setups) ==
    /\ phase = "constructed"
    /\ startDateProp = NULL
    /\ endDateProp = NULL
    /\ titleProp = NULL
    /\ allDayProperty = NULL
    /\ data = [defined |-> FALSE, data |-> <<>>]
    /\ entries = <<>>
    /\ root = NULL
    /\ refreshTimeout = NoTimeout
    /\ timers = {}
    /\ mountedRoots = 0
    /\ pendingProps = NoProps
    /\ ui = NoProps
    /\ emptyPrompt = FALSE
    /\ creates = 0
    /\ \E dur \in durs : frontmatter = [p \in Paths |-> InitialFm(dur)]
    /\ wb = IdleWb
    /\ fmBefore = frontmatter
    /\ writeBacks = 0
    /\ lastPass = "none"
    /\ sinceNotif = DebounceMs
    /\ notifsInBurst = 0
    /\ passesInBurst = 0
    /\ refreshDelay = DebounceMs
    /\ afterUnload = NoHistory
    /\ config = NoOptions
    /\ condenseLevel = DEFAULT_CONDENSE_LEVEL
    /\ minHour = <<>>
    /\ maxHour = <<>>
    /\ storage \in stores
    /\ lastZoom = Undefined
    /\ files \in vaults
    /\ \E setup \in setups :
         /\ templatePath = setup.path
         /\ templateFile = setup.file
    /\ ce = IdleCall
    /\ ce2 = NoOverlap
    /\ settings = DefaultSettings
    /\ menu = NoMenu
    /\ prompt = NoPrompt

\* An empty destination folder and no template configured.
InitOf(durs, stores) ==
    InitAll(durs, stores, {{}}, {[path |-> NULL, file |-> NoFile]})

\* Nothing is cached for the query.
InitWith(durs) == InitOf(durs, {NoItem})

Init == InitWith({FAbsent})

(***************************************************************************)
(* Rendering: renderReactCalendar and the React root.                      *)
(***************************************************************************)
\* renderReactCalendar: create the root if there is none, then root.render
\* with props computed from the adapter's state (of them the model keeps
\* `editable`); React commits the render later (CommitRender).
renderReactCalendar(sp, ep) ==
    /\ root' = "root"
    /\ mountedRoots' = IF root = NULL THEN mountedRoots + 1 ELSE mountedRoots
    /\ pendingProps' = Props(isEditableOf(sp, ep))
    /\ UNCHANGED <<ui, emptyPrompt>>

\* this.root?.unmount(); this.root = null
unmountRoot ==
    /\ root' = NULL
    /\ mountedRoots' = IF root # NULL THEN mountedRoots - 1 ELSE mountedRoots
    /\ pendingProps' = NoProps
    /\ ui' = NoProps

\* React commits the pending render: the component now shows these props,
\* and the first commit of a root replaces what the container held.
CommitRender ==
    /\ pendingProps.set
    /\ ui' = pendingProps
    /\ pendingProps' = NoProps
    /\ emptyPrompt' = FALSE
    /\ UNCHANGED <<phase, cfgVars, data, entries, root, mountedRoots,
                   timerVars, creates, writeVars, lastPass, histVars,
                   viewVars, svcVars, uiVars>>

\* updateCalendar, run on result set d under the bindings sp, ep, tp
updateCalendar(d, sp, ep, tp) ==
    IF ~d.defined \/ sp = NULL
    THEN /\ unmountRoot
         /\ emptyPrompt' = TRUE
         /\ entries' = entries
         /\ lastPass' = "empty"
    ELSE LET r == ExtractEntries(d.data, sp, ep, tp)
         IN  /\ entries' = r.entries
             /\ IF r.threw
                THEN /\ UNCHANGED domVars
                     /\ lastPass' = "update-threw"
                ELSE /\ renderReactCalendar(sp, ep)
                     /\ lastPass' = "update"

(***************************************************************************)
(* The view's lifecycle and the host's calls.                              *)
(***************************************************************************)
\* onload: the host loads the component; the refresh listeners are
\* registered and stay so until the component is unloaded.
OnLoad ==
    /\ phase = "constructed"
    /\ phase' = "loaded"
    /\ UNCHANGED <<cfgVars, data, entries, domVars, timerVars, creates,
                   writeVars, lastPass, histVars, viewVars, svcVars, uiVars>>

\* onDataUpdated: loadConfig from the view configuration cfg, then
\* updateCalendar on the new result set d.
OnDataUpdated(cfg, d) ==
    /\ phase = "loaded"
    /\ startDateProp' = cfg.startDate
    /\ endDateProp' = cfg.endDate
    /\ titleProp' = cfg.titleProperty
    /\ allDayProperty' =
         IF cfg.allDayProperty # NULL THEN cfg.allDayProperty ELSE NoteAllDay
    /\ data' = [defined |-> TRUE, data |-> d]
    /\ condenseLevel' = loadCondenseLevel(config.condenseLevel, storage)
    /\ minHour' = normalizeHour(config.minHour)
    /\ maxHour' = normalizeHour(config.maxHour)
    /\ updateCalendar(data', cfg.startDate, cfg.endDate, cfg.titleProperty)
    /\ UNCHANGED <<phase, timerVars, creates, writeVars, histVars, config,
                   storage, lastZoom, svcVars, uiVars>>

\* onResize
OnResize ==
    /\ phase = "loaded"
    /\ updateCalendar(data, startDateProp, endDateProp, titleProp)
    /\ UNCHANGED <<phase, cfgVars, data, timerVars, creates, writeVars,
                   histVars, viewVars, svcVars, uiVars>>

\* refreshFromPluginSettings
RefreshFromPluginSettings ==
    /\ phase = "loaded"
    /\ renderReactCalendar(startDateProp, endDateProp)
    /\ UNCHANGED <<phase, cfgVars, data, entries, timerVars, creates,
                   writeVars, lastPass, histVars, viewVars, svcVars, uiVars>>

(***************************************************************************)
(* The debounced refresh.                                                  *)
(***************************************************************************)
\* window.clearTimeout(handle)
clearTimeout(handle, ts) == {t \in ts : t.id # handle}

PendingIds(ts) == {t.id : t \in ts}
FreeIds(ts) == (1..MaxTimers) \ PendingIds(ts)

\* The handle window.setTimeout returns: one no pending timer has.
NewTimerId(ts) == CHOOSE i \in FreeIds(ts) : \A j \in FreeIds(ts) : i <= j

\* hasEntryForFile
hasEntryForFile(ents, path) == \E i \in 1..Len(ents) : ents[i].path = path

\* Variant of scheduleRefresh that never clears.  C8_OneTimerOnePass must
\* fail on it.
timersAfterClear_KeepsPending(handle, ts) == ts

\* scheduleRefresh, first half: the pending timers once the previous
\* timeout, if any, has been cleared
timersAfterClear(handle, ts) ==
    IF handle # NoTimeout THEN clearTimeout(handle, ts) ELSE ts

\* Variant that stores a handle but starts no timer.  C26_EventuallyOnePass
\* must fail on it.
scheduleRefresh_NoTimer ==
    LET cleared == timersAfterClear(refreshTimeout, timers)
    IN  /\ FreeIds(cleared) # {}
        /\ refreshTimeout' = NewTimerId(cleared)
        /\ timers' = cleared

\* scheduleRefresh: clear the pending timeout, set a new one of 120 ms
scheduleRefresh ==
    LET cleared == timersAfterClear(refreshTimeout, timers)
    IN  /\ FreeIds(cleared) # {}
        /\ refreshTimeout' = NewTimerId(cleared)
        /\ timers' = cleared \cup
                       {[id |-> NewTimerId(cleared), left |-> DebounceMs]}

\* A vault "modify"/"rename" or metadataCache "changed" event for `path`
\* reaches handleTrackedFileChange (the listeners are detached on unload).
FileChange(path) ==
    /\ phase = "loaded"
    /\ IF hasEntryForFile(entries, path)
       THEN /\ scheduleRefresh
            /\ sinceNotif' = 0
            /\ notifsInBurst' =
                 IF sinceNotif >= DebounceMs THEN 1
                 ELSE Min(MaxPassCount, notifsInBurst + 1)
            /\ passesInBurst' =
                 IF sinceNotif >= DebounceMs THEN 0 ELSE passesInBurst
       ELSE UNCHANGED <<timerVars, sinceNotif, notifsInBurst, passesInBurst>>
    /\ UNCHANGED <<phase, cfgVars, data, entries, domVars, creates,
                   writeVars, lastPass, refreshDelay, afterUnload, viewVars, svcVars, uiVars>>

\* TickMs of time pass.
Tick ==
    /\ \/ \E t \in timers : t.left > 0
       \/ sinceNotif < DebounceMs
    /\ timers' = {[id |-> t.id, left |-> Max(0, t.left - TickMs)] : t \in timers}
    /\ sinceNotif' = Min(DebounceMs, sinceNotif + TickMs)
    /\ UNCHANGED <<phase, cfgVars, data, entries, domVars, refreshTimeout,
                   creates, writeVars, lastPass, notifsInBurst,
                   passesInBurst, refreshDelay, afterUnload, viewVars, svcVars, uiVars>>

\* The callback scheduleRefresh handed to setTimeout runs: timer t is due.
RefreshFire(t) ==
    /\ t \in timers
    /\ t.left = 0
    /\ timers' = timers \ {t}
    /\ LET r == IF data.defined
                THEN ExtractEntries(data.data, startDateProp, endDateProp,
                                    titleProp)
                ELSE [entries |-> <<>>, threw |-> TRUE]
       IN  /\ entries' = r.entries
           /\ IF r.threw
              THEN /\ UNCHANGED <<domVars, refreshTimeout>>
                   /\ lastPass' = "refresh-threw"
              ELSE /\ renderReactCalendar(startDateProp, endDateProp)
                   /\ refreshTimeout' = NoTimeout
                   /\ lastPass' = "refresh"
    /\ passesInBurst' = Min(MaxPassCount, passesInBurst + 1)
    /\ refreshDelay' = sinceNotif
    /\ afterUnload' =
         IF phase = "unloaded"
         THEN [afterUnload EXCEPT !.refreshRan = TRUE,
                                  !.mounted = @ \/ root' # NULL]
         ELSE afterUnload
    /\ UNCHANGED <<phase, cfgVars, data, creates, writeVars, sinceNotif,
                   notifsInBurst, viewVars, svcVars, uiVars>>

\* Variant of onunload that never clears.  C9_NoRefreshAfterUnload must
\* fail on it.
timersAfterUnload_KeepsPending(handle, ts) == ts

\* The timers onunload leaves pending
timersAfterUnload(handle, ts) ==
    IF handle # NoTimeout THEN clearTimeout(handle, ts) ELSE ts

\* onunload, as the host unloads the component and detaches its listeners
OnUnload ==
    /\ phase = "loaded"
    /\ phase' = "unloaded"
    /\ timers' = timersAfterUnload(refreshTimeout, timers)
    /\ refreshTimeout' = NoTimeout
    /\ unmountRoot
    /\ entries' = <<>>
    /\ afterUnload' =
         [afterUnload EXCEPT !.cancelled = (timers' # timers)]
    /\ UNCHANGED <<cfgVars, data, emptyPrompt, creates, writeVars, lastPass,
                   sinceNotif, notifsInBurst, passesInBurst, refreshDelay,
                   viewVars, svcVars, uiVars>>

(***************************************************************************)
(* Event creation from a selection.                                        *)
(***************************************************************************)
\* The component's select callback calls onCreateSelection: handleCreateRange
\* starts and awaits newEventService.createEvent.
Select ==
    /\ ui.set
    /\ creates < MaxPendingCreates
    /\ creates' = creates + 1
    /\ UNCHANGED <<phase, cfgVars, data, entries, domVars, timerVars,
                   writeVars, lastPass, histVars, viewVars, svcVars, uiVars>>

\* createEvent settles.  Resolved (a note was created, or the prompt was
\* cancelled): handleCreateRange goes on to updateCalendar.  Rejected: it
\* ends there.
CreateSettles(resolved) ==
    /\ creates > 0
    /\ creates' = creates - 1
    /\ IF resolved
       THEN /\ updateCalendar(data, startDateProp, endDateProp, titleProp)
            /\ afterUnload' =
                 IF phase = "unloaded"
                 THEN [afterUnload EXCEPT !.mounted = @ \/ root' # NULL]
                 ELSE afterUnload
       ELSE UNCHANGED <<entries, domVars, lastPass, afterUnload>>
    /\ UNCHANGED <<phase, cfgVars, data, timerVars, writeVars, sinceNotif,
                   notifsInBurst, passesInBurst, refreshDelay, viewVars, svcVars, uiVars>>

(***************************************************************************)
(* View options and zoom.                                                  *)
(***************************************************************************)
\* The user edits the view's options: the host stores them in this.config
\* (and then reports with onDataUpdated).
ConfigChange(opt) ==
    /\ phase = "loaded"
    /\ config' = opt
    /\ UNCHANGED <<phase, cfgVars, data, entries, domVars, timerVars,
                   creates, writeVars, lastPass, histVars, condenseLevel,
                   minHour, maxHour, storage, lastZoom, svcVars, uiVars>>

\* handleCondenseInput of the component: the slider's input event sets the
\* component's own condenseLevel state and calls nothing else.
HandleCondenseInput(rawValue) ==
    /\ ui.set
    /\ lastZoom' = Num(
         Min(MAX_CONDENSE_LEVEL,
             Max(0, IF rawValue # NaN THEN rawValue.n
                    ELSE DEFAULT_CONDENSE_LEVEL)))
    /\ UNCHANGED <<phase, cfgVars, data, entries, domVars, timerVars,
                   creates, writeVars, lastPass, histVars, config,
                   condenseLevel, minHour, maxHour, storage, svcVars, uiVars>>

\* The onCondenseLevelChange prop, i.e. updateCondenseLevel(level).  The
\* component does not declare the prop and never calls it.
OnCondenseLevelChange(level) ==
    /\ ui.set
    /\ condenseLevel' = normalizeCondenseLevel(level)
    /\ storage' = Item(toString(normalizeCondenseLevel(level)))
    /\ config' = [config EXCEPT
                    !.condenseLevel = Num(normalizeCondenseLevel(level))]
    /\ renderReactCalendar(startDateProp, endDateProp)
    /\ UNCHANGED <<phase, cfgVars, data, entries, timerVars, creates,
                   writeVars, lastPass, histVars, minHour, maxHour, lastZoom, svcVars, uiVars>>

\* The value of slotMinTime / slotMaxTime the component hands to the
\* widget when it renders with props p.
slotMinTime(p) == DEFAULT_SLOT_MIN_TIME
slotMaxTime(p) == DEFAULT_SLOT_MAX_TIME

\* Levels of the view configuration and of updateCondenseLevel.
LevelSamples == {0 - 1, 0, 150, MAX_CONDENSE_LEVEL, MAX_CONDENSE_LEVEL + 1}

\* Slider values (Number(event.currentTarget.value)).
RawSamples ==
    {NaN} \cup {Num(n) : n \in {0 - 3, 0, 150, MAX_CONDENSE_LEVEL + 80}}

\* Items of localStorage: none, "150", "-5", "999", "abc", "12px", " 42", "".
StoredSamples ==
    {NoItem} \cup
    {Item(s) : s \in
       {<<"1", "5", "0">>,
        <<"-", "5">>,
        <<"9", "9", "9">>,
        <<"a", "b", "c">>,
        <<"1", "2", "p", "x">>,
        <<" ", "4", "2">>,
        <<>>}}

\* Hour windows (minHour, maxHour) of the view configuration.
HourPairs ==
    {<< <<>>, <<>> >>,
     << <<"0", "8", ":", "0", "0">>, <<"1", "8", ":", "0", "0">> >>,
     << <<"8", ":", "3", "0">>, <<"2", "3", ":", "5", "9", ":", "5", "9">> >>,
     << <<"2", "4", ":", "0", "0">>, <<"0", "8", ":", "6", "0">> >>,
     << <<"0", "8", "0", "0">>, <<"0", "8", ":", "0", "0", ":", "0">> >>,
     << <<"0", "7", ":", "1", "5", ":", "3", "0">>, <<>> >>}

\* Options the user sets: a condense level alone, or an hour window alone.
ViewOptions ==
    {[condenseLevel |-> l, minHour |-> <<>>, maxHour |-> <<>>] :
        l \in {Num(n) : n \in LevelSamples}}
    \cup {[condenseLevel |-> Undefined, minHour |-> h[1], maxHour |-> h[2]] :
            h \in HourPairs}

ViewConfigs ==
    [startDate : {NULL, NoteStart}, endDate : {NULL},
     titleProperty : {NULL}, allDayProperty : {NULL}]

InitView == InitOf({FAbsent}, StoredSamples)

NextView ==
    \/ OnLoad
    \/ \E opt \in ViewOptions : ConfigChange(opt)
    \/ \E cfg \in ViewConfigs : OnDataUpdated(cfg, <<RecA>>)
    \/ CommitRender
    \/ \E rawValue \in RawSamples : HandleCondenseInput(rawValue)
    \/ \E level \in LevelSamples : OnCondenseLevelChange(level)

SpecView == InitView /\ [][NextView]_vars

(***************************************************************************)
(* The component's events: one widget event per entry.                     *)
(***************************************************************************)
\* The body of entries.map in the `events` memo, as far as id, start, end
\* and allDay go.
toEvent(calEntry) ==
    LET startDate == calEntry.startDate
        endDate == IF calEntry.endDate # NoDate THEN calEntry.endDate
                   ELSE startDate + 60 * TicksPerMinute
        isAllDay == /\ getHours(startDate) = 0
                    /\ getMinutes(startDate) = 0
                    /\ getHours(endDate) = 0
                    /\ getMinutes(endDate) = 0
    IN  [id |-> calEntry.path, start |-> startDate, end |-> endDate,
         allDay |-> isAllDay]

\* events: entries.map(...)
events(ents) == [i \in 1..Len(ents) |-> toEvent(ents[i])]

\* Records for the events: midnight to midnight; midnight with no end;
\* a few seconds past midnight to midnight; 09:00 to 10:30; 23:00 with no
\* end.
EvAllDay ==
    Rec("e1.md", VDate(At(1, 0, 0, 0)), VNull, VDate(At(2, 0, 0, 0)), VNull)
EvMidnightNoEnd ==
    Rec("e2.md", VDate(At(1, 0, 0, 0)), VNull, VNull, VNull)
EvPastMidnight ==
    Rec("e3.md", VDate(At(1, 0, 0, 1)), VNull, VDate(At(2, 0, 0, 0)), VNull)
EvTimed ==
    Rec("e4.md", VDate(DateA), VNull, VDate(DateB), VNull)
EvLateNoEnd ==
    Rec("e5.md", VDate(At(0, 23, 0, 0)), VNull, VNull, VNull)

EventRecords ==
    {EvAllDay, EvMidnightNoEnd, EvPastMidnight, EvTimed, EvLateNoEnd}

EventConfigs ==
    [startDate : {NoteStart}, endDate : {NULL, NoteEnd},
     titleProperty : {NULL}, allDayProperty : {NULL}]

NextEvents ==
    \/ OnLoad
    \/ \E cfg \in EventConfigs, d \in ResultSets(EventRecords) :
         OnDataUpdated(cfg, d)
    \/ CommitRender

SpecEvents == Init /\ [][NextEvents]_vars

(***************************************************************************)
(* NewEventService: createEvent, step by step.                             *)
(***************************************************************************)
\* The paths getAbstractFileByPath finds something at.
PathsOf(fs) == {f.path : f \in fs}

\* title.trim() of a title that passed the guard
safeTitleOf(title) == IF title = Undefined THEN <<>> ELSE trim(title.text)

\* The content createEvent hands to vault.create.
contentOf(template, call) ==
    buildNoteContent(template,
        buildFrontmatter(safeTitleOf(call.title), call.start, call.end,
                         startDateProp, endDateProp, allDayProperty))

\* handleCreateRange: `await createEvent(start, end)` resolved, then
\* updateCalendar().
ThenUpdateCalendar ==
    /\ updateCalendar(data, startDateProp, endDateProp, titleProp)
    /\ afterUnload' =
         IF phase = "unloaded"
         THEN [afterUnload EXCEPT !.mounted = @ \/ root' # NULL]
         ELSE afterUnload

\* The component's select callback: handleCreateRange calls createEvent,
\* which opens the title prompt and awaits it.
SelectRange(start, end) ==
    /\ ui.set
    /\ ce.pc \in {"idle", "done"}
    /\ ce.calls < MaxCalls
    /\ ce' = [IdleCall EXCEPT !.pc = "prompt", !.start = start,
                              !.end = end, !.calls = ce.calls + 1,
                              !.before = files]
    /\ prompt' = onOpen
    /\ UNCHANGED <<phase, cfgVars, data, entries, domVars, timerVars,
                   creates, writeVars, lastPass, histVars, viewVars, files,
                   templatePath, templateFile, ce2, settings, menu>>

\* The prompt resolves with `value` (`typed` records what the user did:
\* the text in the input on Enter, undefined on a cancel) and createEvent
\* goes on: the guard,
\* resolveFolderPath, buildUniquePath, loadTemplate up to its vault.read
\* (when there is a template file to read), else on to vault.create.
PromptFinish(value, typed) ==
    /\ ce.pc = "prompt"
    /\ prompt' = finish(prompt, value)
    /\ IF titleRejected(value)
       THEN /\ ce' = [ce EXCEPT !.pc = "done", !.title = value,
                                !.typed = typed, !.result = "null"]
            /\ ThenUpdateCalendar
       ELSE /\ LET chosen == [ce EXCEPT
                     !.title = value,
                     !.typed = typed,
                     !.seen = PathsOf(files),
                     !.path = buildUniquePath(safeTitleOf(value), ce.start,
                                              PathsOf(files))]
               IN  IF templatePath # NULL /\ templateFile.exists
                   THEN ce' = [chosen EXCEPT !.pc = "template"]
                   ELSE ce' = [chosen EXCEPT
                                 !.pc = "creating",
                                 !.content = contentOf(NoTemplate, chosen)]
            /\ UNCHANGED <<entries, domVars, lastPass, afterUnload>>
    /\ UNCHANGED <<phase, cfgVars, data, timerVars, creates, writeVars,
                   sinceNotif, notifsInBurst, passesInBurst, refreshDelay,
                   viewVars, files, templatePath, templateFile, ce2,
                   settings, menu>>

\* Enter or the form's submit: finish(input.value.trim() || undefined)
PromptSubmit(inputValue) ==
    PromptFinish(submitted(inputValue), Text(inputValue))

\* Escape, Cancel, or the modal closing: finish(undefined)
PromptCancel == PromptFinish(Undefined, Undefined)

\* One more of the prompt's events after it has resolved (finish itself
\* ends with this.close(), which runs onClose).
PromptLate(ev, inputValue) ==
    /\ prompt.resolved
    /\ prompt' = [promptHandler(prompt, ev, inputValue) EXCEPT !.late = TRUE]
    /\ UNCHANGED <<phase, cfgVars, data, entries, domVars, timerVars,
                   creates, writeVars, lastPass, histVars, viewVars,
                   svcVars, settings, menu>>

\* vault.read of the template file settles; a failure is caught and gives
\* null.  Then buildFrontmatter, buildNoteContent, and vault.create is
\* called.
TemplateRead(ok) ==
    /\ ce.pc = "template"
    /\ LET template == IF ok THEN Template(templateFile.text)
                       ELSE NoTemplate
       IN  ce' = [ce EXCEPT !.pc = "creating",
                            !.reads = @ + 1,
                            !.template = template,
                            !.content = contentOf(template, ce)]
    /\ UNCHANGED <<phase, cfgVars, data, entries, domVars, timerVars,
                   creates, writeVars, lastPass, histVars, viewVars, files,
                   templatePath, templateFile, ce2, uiVars>>

\* vault.create(path, content) settles: it creates the file, or rejects
\* when something exists at the path or the write fails.  Resolved:
\* createEvent returns the file and handleCreateRange goes on.  Rejected:
\* createEvent and handleCreateRange reject.
VaultCreate(ioOk) ==
    /\ ce.pc = "creating"
    /\ IF ioOk /\ ce.path \notin PathsOf(files)
       THEN /\ files' = files \cup {[path |-> ce.path,
                                     content |-> ce.content]}
            /\ ce' = [ce EXCEPT !.pc = "done", !.result = "file"]
            /\ ThenUpdateCalendar
       ELSE /\ ce' = [ce EXCEPT !.pc = "done", !.result = "rejected"]
            /\ UNCHANGED <<files, entries, domVars, lastPass, afterUnload>>
    /\ UNCHANGED <<phase, cfgVars, data, timerVars, creates, writeVars,
                   sinceNotif, notifsInBurst, passesInBurst, refreshDelay,
                   viewVars, templatePath, templateFile, ce2, uiVars>>

\* Something else (the user, a sync) creates a file in the folder while
\* createEvent awaits.
OtherContent == <<Word("other")>>
ExternalCreate(path) ==
    /\ ce.pc \in {"template", "creating"}
    /\ path \notin PathsOf(files)
    /\ files' = files \cup {[path |-> path, content |-> OtherContent]}
    /\ UNCHANGED <<phase, cfgVars, data, entries, domVars, timerVars,
                   creates, writeVars, lastPass, histVars, viewVars,
                   templatePath, templateFile, ce, ce2, uiVars>>

\* A second selection while the first createEvent call awaits its template
\* read or its vault.create: handleCreateRange calls createEvent again, with
\* nothing that waits for the first call, and a second prompt opens.
SelectRange2(start, end) ==
    /\ ui.set
    /\ ce.pc \in {"template", "creating"}
    /\ ce2.pc = "idle"
    /\ ce2' = [NoOverlap EXCEPT !.pc = "prompt", !.start = start,
                                !.end = end]
    /\ UNCHANGED <<phase, cfgVars, data, entries, domVars, timerVars,
                   creates, writeVars, lastPass, histVars, viewVars, files,
                   templatePath, templateFile, ce, uiVars>>

\* The second prompt is confirmed with the title of the first call: the
\* guard passes, buildUniquePath reads the vault as it is now, and
\* loadTemplate starts its vault.read when there is a template file.
PromptSubmit2 ==
    /\ ce2.pc = "prompt"
    /\ ce.pc \in {"template", "creating", "done"}
    /\ ~titleRejected(ce.title)
    /\ LET chosen == [ce2 EXCEPT
                 !.title = ce.title,
                 !.path = buildUniquePath(safeTitleOf(ce.title), ce2.start,
                                          PathsOf(files))]
       IN  IF templatePath # NULL /\ templateFile.exists
           THEN ce2' = [chosen EXCEPT !.pc = "template"]
           ELSE ce2' = [chosen EXCEPT
                          !.pc = "creating",
                          !.content = contentOf(NoTemplate, chosen)]
    /\ UNCHANGED <<phase, cfgVars, data, entries, domVars, timerVars,
                   creates, writeVars, lastPass, histVars, viewVars, files,
                   templatePath, templateFile, ce, uiVars>>

\* The second call's vault.read of the template settles.
TemplateRead2(ok) ==
    /\ ce2.pc = "template"
    /\ LET template == IF ok THEN Template(templateFile.text)
                       ELSE NoTemplate
       IN  ce2' = [ce2 EXCEPT !.pc = "creating",
                              !.content = contentOf(template, ce2)]
    /\ UNCHANGED <<phase, cfgVars, data, entries, domVars, timerVars,
                   creates, writeVars, lastPass, histVars, viewVars, files,
                   templatePath, templateFile, ce, uiVars>>

\* The second call's vault.create settles, as the first call's does.
VaultCreate2(ioOk) ==
    /\ ce2.pc = "creating"
    /\ IF ioOk /\ ce2.path \notin PathsOf(files)
       THEN /\ files' = files \cup {[path |-> ce2.path,
                                     content |-> ce2.content]}
            /\ ce2' = [ce2 EXCEPT !.pc = "done", !.result = "file"]
            /\ ThenUpdateCalendar
       ELSE /\ ce2' = [ce2 EXCEPT !.pc = "done", !.result = "rejected"]
            /\ UNCHANGED <<files, entries, domVars, lastPass, afterUnload>>
    /\ UNCHANGED <<phase, cfgVars, data, timerVars, creates, writeVars,
                   sinceNotif, notifsInBurst, passesInBurst, refreshDelay,
                   viewVars, templatePath, templateFile, ce, uiVars>>

\* Titles typed into the prompt: nothing, blanks only, a padded title, a
\* title that ends like a date suffix.
Meeting == <<Word("Meeting")>>
InputSamples ==
    {<<>>, <<Space, Space>>, <<Space>> \o Meeting \o <<Space>>,
     Meeting \o <<Space, DateSuffix(2024, 3, 2)>>}

\* Selections: 2024-03-01 09:00 to 10:30, and the whole of 2024-03-02.
SelectionPairs == {<<DateA, DateB>>, <<At(1, 0, 0, 0), At(2, 0, 0, 0)>>}

\* Files that may be in the destination folder.
PathPool ==
    {basePath(Meeting), datedPath(Meeting, At(1, 0, 0, 0)),
     countedPath(Meeting, At(1, 0, 0, 0), 1), datedPath(Meeting, DateA)}

Existing(ps) == {[path |-> p, content |-> OtherContent] : p \in ps}

VaultSamples ==
    {Existing({}),
     Existing({basePath(Meeting)}),
     Existing({basePath(Meeting), datedPath(Meeting, At(1, 0, 0, 0))}),
     Existing({basePath(Meeting), datedPath(Meeting, At(1, 0, 0, 0)),
               countedPath(Meeting, At(1, 0, 0, 0), 1)})}

\* Templates: no frontmatter; a frontmatter block with a key of its own and
\* a title; a frontmatter value with three dashes in it; an empty block.
TplPlain == <<Word("Agenda"), Newline, Dashes, Newline, Word("Notes")>>
TplFm ==
    <<Dashes, Newline, Word("tags"), Colon, Space, Word("work"), Newline,
      Word("title"), Colon, Space, Word("Draft"), Newline, Dashes, Newline,
      Word("Agenda")>>
TplDashValue ==
    <<Dashes, Newline, Word("sep"), Colon, Space, Word("a"), Dashes,
      Word("b"), Newline, Word("tags"), Colon, Space, Word("work"), Newline,
      Dashes, Newline, Word("Agenda")>>
TplEmptyFm == <<Dashes, Newline, Dashes, Newline, Word("Agenda")>>

TemplateSamples == {TplPlain, TplFm, TplDashValue, TplEmptyFm}

TemplateSetups ==
    {[path |-> NULL, file |-> NoFile], [path |-> "tpl.md", file |-> NoFile]}
      \cup {[path |-> "tpl.md", file |-> TFile(t)] : t \in TemplateSamples}

CreateConfigs ==
    [startDate : {NoteStart}, endDate : {NULL, NoteEnd, FormulaEnd},
     titleProperty : {NULL}, allDayProperty : {NULL}]

InitCreate == InitAll({FAbsent}, {NoItem}, VaultSamples, TemplateSetups)

NextCreate ==
    \/ OnLoad
    \/ \E cfg \in CreateConfigs :
         ce.pc = "idle" /\ OnDataUpdated(cfg, <<RecA>>)
    \/ CommitRender
    \/ \E p \in SelectionPairs : SelectRange(p[1], p[2])
    \/ \E v \in InputSamples : PromptSubmit(v)
    \/ PromptCancel
    \/ \E ok \in BOOLEAN : TemplateRead(ok)
    \/ \E ioOk \in BOOLEAN : VaultCreate(ioOk)
    \/ \E p \in PathPool : ExternalCreate(p)

SpecCreate == InitCreate /\ [][NextCreate]_vars

\* The prompt alone: one call at a time, every event of the prompt before
\* and after its resolution, no template.
NextPrompt ==
    \/ OnLoad
    \/ \E cfg \in CreateConfigs :
         ce.pc = "idle" /\ OnDataUpdated(cfg, <<RecA>>)
    \/ CommitRender
    \/ \E p \in SelectionPairs : SelectRange(p[1], p[2])
    \/ \E v \in InputSamples : PromptSubmit(v)
    \/ PromptCancel
    \/ \E ev \in PromptEvents, v \in InputSamples : PromptLate(ev, v)
    \/ \E ioOk \in BOOLEAN : VaultCreate(ioOk)

SpecPrompt == Init /\ [][NextPrompt]_vars

\* Two createEvent calls that overlap: the folder empty or holding the base
\* path, no template or a readable one, and nothing else writing to the
\* vault.
OverlapVaults == {Existing({}), Existing({basePath(Meeting)})}
OverlapTemplates ==
    {[path |-> NULL, file |-> NoFile],
     [path |-> "tpl.md", file |-> TFile(TplPlain)]}

InitOverlap == InitAll({FAbsent}, {NoItem}, OverlapVaults, OverlapTemplates)

NextOverlap ==
    \/ OnLoad
    \/ \E cfg \in CreateConfigs :
         ce.pc = "idle" /\ OnDataUpdated(cfg, <<RecA>>)
    \/ CommitRender
    \/ \E p \in SelectionPairs : SelectRange(p[1], p[2])
    \/ \E v \in InputSamples : PromptSubmit(v)
    \/ PromptCancel
    \/ \E ok \in BOOLEAN : TemplateRead(ok)
    \/ \E ioOk \in BOOLEAN : VaultCreate(ioOk)
    \/ \E p \in SelectionPairs : SelectRange2(p[1], p[2])
    \/ PromptSubmit2
    \/ \E ok \in BOOLEAN : TemplateRead2(ok)
    \/ \E ioOk \in BOOLEAN : VaultCreate2(ioOk)

SpecOverlap == InitOverlap /\ [][NextOverlap]_vars

(***************************************************************************)
(* The plugin's settings and the style maps handed to rendering.           *)
(***************************************************************************)
\* loadSettings, once loadData has resolved with `stored`
LoadSettings(stored) ==
    /\ settings' =
         [priorityColors |->
            parseStyleMapping(
                Coalesce(stored, stored.priorityColors,
                         stored.priorityColorMap),
                DEFAULT_PRIORITY_COLOR_MAP),
          statusStyles |->
            parseStyleMapping(
                Coalesce(stored, stored.statusStyles, stored.statusStyleMap),
                DEFAULT_STATUS_STYLE_MAP)]
    /\ UNCHANGED <<phase, cfgVars, data, entries, domVars, timerVars,
                   creates, writeVars, lastPass, histVars, viewVars,
                   svcVars, menu, prompt>>

\* The settings tab's color picker: settings.priorityColors[priority] =
\* value (saveSettings follows, and after it refreshCalendarViews)
SetPriorityColor(priority, value) ==
    /\ settings' = [settings EXCEPT
                      !.priorityColors = Assign(@, priority, value)]
    /\ UNCHANGED <<phase, cfgVars, data, entries, domVars, timerVars,
                   creates, writeVars, lastPass, histVars, viewVars,
                   svcVars, menu, prompt>>

\* The settings tab's dropdown: settings.statusStyles[status] = value
SetStatusStyle(status, value) ==
    /\ settings' = [settings EXCEPT
                      !.statusStyles = Assign(@, status, value)]
    /\ UNCHANGED <<phase, cfgVars, data, entries, domVars, timerVars,
                   creates, writeVars, lastPass, histVars, viewVars,
                   svcVars, menu, prompt>>

\* Inputs of parseStyleMapping: absent ones, delimited strings, objects,
\* an array.
LowHigh ==
    Str(<<Word("low"), Colon, Word("#111111"), Semicolon, Space,
          Word("high"), Colon, Word("#222222")>>)
StringSamples ==
    {LowHigh,
     Str(<<Space, Word("LOW"), Space, Colon, Space, Word("#111111"), Comma,
           Word("urgent"), Colon, Word("#333333"), Newline, Word("high"),
           Colon, Semicolon, Colon, Word("#444444"), Comma,
           Word("medium")>>),
     Str(<<Word("normal"), Colon, Word("#555555"), Colon, Word("x")>>)}
ObjectSamples ==
    {Obj(<<[key |-> Key("High"), value |-> Str(<<Space, Word("#222222")>>)],
           [key |-> Key("low"), value |-> Str(<<Space>>)],
           [key |-> Key("medium"), value |-> Num(7)],
           [key |-> Key("urgent"), value |-> Str(<<Word("#333333")>>)]>>),
     Obj(<<>>)}
StyleInputs ==
    {Undefined, Null, Str(<<>>), Num(0)} \cup StringSamples
      \cup ObjectSamples
      \cup {Arr(<<<<Word("low"), Colon, Word("#111111")>>,
                 <<Word("High"), Colon, Word("#222222")>>>>)}

StatusInputs ==
    {Undefined, Str(<<Word("Open"), Colon, Word("bold")>>),
     Obj(<<[key |-> Key("blocked"), value |-> Str(<<>>)]>>)}

StoredSettings ==
    {NoStored}
      \cup {Stored(pc, Undefined, Undefined, Undefined) : pc \in ObjectSamples}
      \cup {Stored(Undefined, LowHigh, Null, ssm) : ssm \in StatusInputs}

\* What the color picker and the dropdown can hand over.
PickedColors == {<<Word("#000000")>>, <<>>}
PickedStyles == {<<Word("bold")>>}
\* The settings the samples change.
PickedPriorities == {Key("low"), Key("urgent")}
PickedStatuses == {Key("open")}

StyleConfigs ==
    [startDate : {NULL, NoteStart}, endDate : {NULL},
     titleProperty : {NULL}, allDayProperty : {NULL}]

NextStyle ==
    \/ OnLoad
    \/ \E cfg \in StyleConfigs : OnDataUpdated(cfg, <<RecA>>)
    \/ CommitRender
    \/ RefreshFromPluginSettings
    \/ \E stored \in StoredSettings :
         phase = "constructed" /\ LoadSettings(stored)
    \/ \E i \in 1..Len(settings.priorityColors), v \in PickedColors :
         /\ settings.priorityColors[i].key \in PickedPriorities
         /\ SetPriorityColor(settings.priorityColors[i].key, v)
    \/ \E i \in 1..Len(settings.statusStyles), v \in PickedStyles :
         /\ settings.statusStyles[i].key \in PickedStatuses
         /\ SetStatusStyle(settings.statusStyles[i].key, v)

SpecStyle == Init /\ [][NextStyle]_vars

(***************************************************************************)
(* The context menu of an entry.                                           *)
(***************************************************************************)
ErrGcmMenu == "Error showing TPS-Global-Context-Menu:"

\* What app.plugins?.plugins?.["TPS-Global-Context-Menu"] is at a request:
\* no such plugin, a plugin without a menuController, or one whose
\* menuController.showForFiles shows its menu and returns, or throws.
GcmStates == {"absent", "noController", "shows", "throws"}

\* The default menu for the file at `path`: what handleLinkContextMenu
\* adds for the link, then the delete item, whose click asks
\* fileManager.promptForDeletion.
DefaultItems(path) ==
    <<[kind |-> "link", path |-> path, section |-> "", warning |-> FALSE,
       onClick |-> "open"],
      [kind |-> "item", path |-> path, section |-> "danger",
       warning |-> TRUE, onClick |-> "promptForDeletion"]>>

\* Variant without the try/catch around the delegation.
showEntryContextMenu_NoCatch(path, gcm) ==
    IF gcm \in {"shows", "throws"}
    THEN [path |-> path, gcm |-> gcm,
          controllerMenus |-> IF gcm = "shows" THEN 1 ELSE 0,
          defaultMenus |-> 0, items |-> <<>>, log |-> {},
          thrown |-> gcm = "throws"]
    ELSE [path |-> path, gcm |-> gcm, controllerMenus |-> 0,
          defaultMenus |-> 1, items |-> DefaultItems(path), log |-> {},
          thrown |-> FALSE]

\* showEntryContextMenu(evt, entry) for the entry of the file at `path`
\* with the plugin in state gcm: the menus shown, by whom, the default menu's items, what was logged and
\* whether an exception leaves the function.  Menu.forEvent shows its
\* menu when the handling of the event ends.
showEntryContextMenu(path, gcm) ==
    IF gcm = "shows"
    THEN [path |-> path, gcm |-> gcm, controllerMenus |-> 1,
          defaultMenus |-> 0, items |-> <<>>, log |-> {}, thrown |-> FALSE]
    ELSE [path |-> path, gcm |-> gcm, controllerMenus |-> 0,
          defaultMenus |-> 1, items |-> DefaultItems(path),
          log |-> IF gcm = "throws" THEN {ErrGcmMenu} ELSE {},
          thrown |-> FALSE]

\* The onEntryContextMenu prop: evt.preventDefault(), then
\* showEntryContextMenu for the entry under the pointer.
OnEntryContextMenu(i, gcm) ==
    /\ ui.set
    /\ i \in 1..Len(entries)
    /\ menu' = showEntryContextMenu(entries[i].path, gcm)
    /\ UNCHANGED <<phase, cfgVars, data, entries, domVars, timerVars,
                   creates, writeVars, lastPass, histVars, viewVars,
                   svcVars, settings, prompt>>

MenuConfigs ==
    [startDate : {NULL, NoteStart}, endDate : {NULL}, titleProperty : {NULL},
     allDayProperty : {NULL}]

NextMenu ==
    \/ OnLoad
    \/ \E cfg \in MenuConfigs, d \in ResultSets({RecA, RecB}) :
         OnDataUpdated(cfg, d)
    \/ CommitRender
    \/ OnUnload
    \/ \E i \in 1..MaxRecords, gcm \in GcmStates : OnEntryContextMenu(i, gcm)

SpecMenu == Init /\ [][NextMenu]_vars

(***************************************************************************)
(* The lifecycle specification.                                            *)
(***************************************************************************)
Configs(starts, ends, titles, allDays) ==
    [startDate : starts, endDate : ends, titleProperty : titles,
     allDayProperty : allDays]

LifeConfigs == Configs({NULL, NoteStart}, {NULL}, {NULL}, {NULL})
LifeRecords == {RecA, RecB}

Next ==
    \/ OnLoad
    \/ \E cfg \in LifeConfigs, d \in ResultSets(LifeRecords) :
         OnDataUpdated(cfg, d)
    \/ OnResize
    \/ RefreshFromPluginSettings
    \/ CommitRender
    \/ \E r \in LifeRecords : FileChange(r.path)
    \/ Tick
    \/ \E t \in timers : RefreshFire(t)
    \/ OnUnload
    \/ Select
    \/ \E resolved \in BOOLEAN : CreateSettles(resolved)

Spec == Init /\ [][Next]_vars

\* The lifecycle with the host's scheduling: time passes, and the timer
\* loop runs a callback that is due.
SpecLive ==
    /\ Init
    /\ [][Next]_vars
    /\ WF_vars(Tick)
    /\ WF_vars(\E t \in timers : RefreshFire(t))

(***************************************************************************)
(* Write-back of a drag or a resize.                                       *)
(***************************************************************************)
WarnResizeNoEnd == "Event resize requires an end date"
WarnStartNotNote == "Start date property is not a note property"
WarnEndNotNote == "End date property is not a note property"

\* The writes of the callback handed to processFrontMatter.
AllWrites == {"start", "end", "allDay"}

\* Variant that writes the start in one transaction and the rest in a
\* second one.  C5_SingleTransaction must fail on it.
updateEntryDates_TwoTransactions(sp, ep, adp, newStart, newEnd, allDay) ==
    LET startField == getNoteField(sp)
        endField == getNoteField(ep)
        allDayField == getNoteField(adp)
        early(log) ==
            [tx |-> FALSE, outcome |-> "aborted", log |-> log,
             newStart |-> newStart, newEnd |-> newEnd,
             startField |-> startField, endField |-> endField,
             allDayField |-> allDayField, plan |-> <<>>]
    IN  IF sp = NULL THEN early({})
        ELSE IF startField = NULL THEN early({WarnStartNotNote})
        ELSE IF ep # NULL /\ endField = NULL THEN early({WarnEndNotNote})
        ELSE [tx |-> TRUE, outcome |-> "pending", log |-> {},
              newStart |-> newStart, newEnd |-> newEnd,
              startField |-> startField, endField |-> endField,
              allDayField |-> allDayField,
              plan |-> <<{"start"}, {"end", "allDay"}>>]

\* updateEntryDates as far as its await: either it returns early (tx =
\* FALSE) or it calls processFrontMatter, here once with a callback that
\* does all the writes (plan: one set of writes per transaction).
updateEntryDates(sp, ep, adp, newStart, newEnd, allDay) ==
    LET startField == getNoteField(sp)
        endField == getNoteField(ep)
        allDayField == getNoteField(adp)
        early(log) ==
            [tx |-> FALSE, outcome |-> "aborted", log |-> log,
             newStart |-> newStart, newEnd |-> newEnd,
             startField |-> startField, endField |-> endField,
             allDayField |-> allDayField, plan |-> <<>>]
    IN  IF sp = NULL THEN early({})
        ELSE IF startField = NULL THEN early({WarnStartNotNote})
        ELSE IF ep # NULL /\ endField = NULL THEN early({WarnEndNotNote})
        ELSE [tx |-> TRUE, outcome |-> "pending", log |-> {},
              newStart |-> newStart, newEnd |-> newEnd,
              startField |-> startField, endField |-> endField,
              allDayField |-> allDayField, plan |-> <<AllWrites>>]

\* Variant that passes an all-day drop on as it came.  C3_AllDayDrop must
\* fail on it.
handleEventDrop_NoNormalize(sp, ep, adp, newStart, newEnd, allDay) ==
    updateEntryDates(sp, ep, adp, newStart, newEnd, allDay)

\* handleEventDrop: normalise an all-day drop to midnight, then write back
handleEventDrop(sp, ep, adp, newStart, newEnd, allDay) ==
    LET normalizedStart ==
            IF allDay = "true" THEN setHoursMidnight(newStart) ELSE newStart
        normalizedEnd ==
            IF allDay = "true" /\ newEnd # NoDate
            THEN setHoursMidnight(newEnd) ELSE newEnd
    IN  updateEntryDates(sp, ep, adp, normalizedStart, normalizedEnd, allDay)

\* Variant without the `if (!newEnd)` guard.  C4_ResizeWithoutEnd must
\* fail on it.
handleEventResize_NoGuard(sp, ep, adp, newStart, newEnd, allDay) ==
    updateEntryDates(sp, ep, adp, newStart, newEnd, allDay)

\* handleEventResize: refuse a resize without an end, else write back
handleEventResize(sp, ep, adp, newStart, newEnd, allDay) ==
    IF newEnd = NoDate
    THEN [tx |-> FALSE, outcome |-> "rejected", log |-> {WarnResizeNoEnd},
          newStart |-> newStart, newEnd |-> newEnd,
          startField |-> NULL, endField |-> NULL, allDayField |-> NULL,
          plan |-> <<>>]
    ELSE updateEntryDates(sp, ep, adp, newStart, newEnd, allDay)

\* Variant that stores the duration whenever it writes the end.
frontmatterCallback_AnyDuration(fm, w, ep, parts) ==
    LET doEnd == "end" \in parts /\ ep # NULL /\ w.newEnd # NoDate
                 /\ w.endField # NULL
        durationMinutes == MathRoundDiv(w.newEnd - w.newStart, TicksPerMinute)
        doAllDay == "allDay" \in parts /\ w.allDayField # NULL
                    /\ w.allDay # "undefined"
        fm1 == IF "start" \in parts
               THEN [fm EXCEPT ![w.startField] =
                       FStr(formatDateTimeForFrontmatter(w.newStart))]
               ELSE fm
        fm2 == IF doEnd
               THEN [fm1 EXCEPT ![w.endField] =
                       FStr(formatDateTimeForFrontmatter(w.newEnd)),
                                !["duration"] = FNum(durationMinutes)]
               ELSE fm1
        fm4 == IF doAllDay
               THEN [fm2 EXCEPT ![w.allDayField] = FBool(w.allDay = "true")]
               ELSE fm2
    IN  [fm |-> fm4,
         written |-> (IF "start" \in parts THEN {w.startField} ELSE {})
                     \cup (IF doEnd THEN {w.endField, "duration"} ELSE {})
                     \cup (IF doAllDay THEN {w.allDayField} ELSE {})]

\* The processFrontMatter callback of updateEntryDates on frontmatter fm,
\* restricted to the writes in `parts`; ep is this.endDateProp as the
\* callback reads it.
frontmatterCallback(fm, w, ep, parts) ==
    LET doEnd == "end" \in parts /\ ep # NULL /\ w.newEnd # NoDate
                 /\ w.endField # NULL
        durationMinutes == MathRoundDiv(w.newEnd - w.newStart, TicksPerMinute)
        doDuration == doEnd /\ durationMinutes > 0
        doAllDay == "allDay" \in parts /\ w.allDayField # NULL
                    /\ w.allDay # "undefined"
        fm1 == IF "start" \in parts
               THEN [fm EXCEPT ![w.startField] =
                       FStr(formatDateTimeForFrontmatter(w.newStart))]
               ELSE fm
        fm2 == IF doEnd
               THEN [fm1 EXCEPT ![w.endField] =
                       FStr(formatDateTimeForFrontmatter(w.newEnd))]
               ELSE fm1
        fm3 == IF doDuration
               THEN [fm2 EXCEPT !["duration"] = FNum(durationMinutes)]
               ELSE fm2
        fm4 == IF doAllDay
               THEN [fm3 EXCEPT ![w.allDayField] = FBool(w.allDay = "true")]
               ELSE fm3
    IN  [fm |-> fm4,
         written |-> (IF "start" \in parts THEN {w.startField} ELSE {})
                     \cup (IF doEnd THEN {w.endField} ELSE {})
                     \cup (IF doDuration THEN {"duration"} ELSE {})
                     \cup (IF doAllDay THEN {w.allDayField} ELSE {})]

\* Variant of handleDrop without the catch.  C6_RevertOnFailure must fail
\* on it.
handleDropSettled_NoCatch(w, ok) == w

\* handleDrop (component) once `await onEventDrop(...)` settles: revert in
\* the catch when it rejected
handleDropSettled(w, ok) ==
    IF ok THEN w
    ELSE [w EXCEPT !.reverts = @ + 1, !.visual = "reverted"]

\* handleResize (component) once `await onEventResize(...)` settles
handleResizeSettled(w, ok) ==
    IF ok THEN w
    ELSE [w EXCEPT !.reverts = @ + 1, !.visual = "reverted"]

\* The continuation that resumes when the adapter's promise settles.
Settled(w, ok) ==
    IF w.via # "component" THEN w
    ELSE IF w.kind = "drop" THEN handleDropSettled(w, ok)
    ELSE handleResizeSettled(w, ok)

\* The widget may emit a drop or a resize of the event of `path`: the
\* committed component is editable and the adapter tracks the record.
CanInteract(path) ==
    /\ wb.pc = "idle"
    /\ writeBacks < MaxWriteBacks
    /\ ui.set
    /\ ui.editable
    /\ hasEntryForFile(entries, path)

\* The adapter's handler returned call record c for the interaction; the
\* widget's event had the all-day flag eventAllDay.
BeginDrag(kind, via, path, argStart, argEnd, allDay, eventAllDay, c) ==
    /\ wb' = Settled(
               [IdleWb EXCEPT !.pc = IF c.tx THEN "awaitTx" ELSE "idle",
                              !.kind = kind, !.via = via, !.path = path,
                              !.argStart = argStart, !.argEnd = argEnd,
                              !.allDay = allDay,
                              !.eventAllDay = eventAllDay,
                              !.newStart = c.newStart, !.newEnd = c.newEnd,
                              !.startField = c.startField,
                              !.endField = c.endField,
                              !.allDayField = c.allDayField,
                              !.plan = c.plan,
                              !.outcome = c.outcome,
                              !.txCalls = IF c.tx THEN 1 ELSE 0,
                              !.log = c.log,
                              !.visual = "moved"],
               TRUE)
    /\ fmBefore' = frontmatter
    /\ writeBacks' = writeBacks + 1
    /\ UNCHANGED <<frontmatter, phase, cfgVars, data, entries, domVars,
                   timerVars, creates, lastPass, histVars, viewVars, svcVars, uiVars>>

\* The same, for an interaction whose event flag plays no part.
Begin(kind, via, path, argStart, argEnd, allDay, c) ==
    BeginDrag(kind, via, path, argStart, argEnd, allDay, "undefined", c)

\* The component reverts without calling the adapter.
RevertOnly(kind, path, argStart, argEnd) ==
    /\ wb' = [IdleWb EXCEPT !.kind = kind, !.via = "component",
                            !.path = path, !.argStart = argStart,
                            !.argEnd = argEnd, !.outcome = "notcalled",
                            !.reverts = 1, !.visual = "reverted"]
    /\ fmBefore' = frontmatter
    /\ writeBacks' = writeBacks + 1
    /\ UNCHANGED <<frontmatter, phase, cfgVars, data, entries, domVars,
                   timerVars, creates, lastPass, histVars, viewVars, svcVars, uiVars>>

\* handleDrop of the component: the widget dropped the event of `path` at
\* start (and end, when the event has one); dropInfo.event.allDay is
\* eventAllDay.  The component calls onEventDrop(entry, newStart,
\* newEnd ?? newStart): the adapter's allDay parameter is undefined.
HandleDrop(path, start, end, eventAllDay) ==
    /\ CanInteract(path)
    /\ IF start = NoDate
       THEN RevertOnly("drop", path, start, end)
       ELSE LET newEnd == IF end # NoDate THEN end ELSE start
            IN  BeginDrag("drop", "component", path, start, newEnd,
                          "undefined", eventAllDay,
                          handleEventDrop(startDateProp, endDateProp,
                                          allDayProperty, start, newEnd,
                                          "undefined"))

\* handleResize of the component
HandleResize(path, start, end) ==
    /\ CanInteract(path)
    /\ IF start = NoDate \/ end = NoDate
       THEN RevertOnly("resize", path, start, end)
       ELSE Begin("resize", "component", path, start, end, "undefined",
                  handleEventResize(startDateProp, endDateProp,
                                    allDayProperty, start, end, "undefined"))

\* The onEventDrop prop, called with every argument the adapter declares
OnEventDrop(path, start, end, allDay) ==
    /\ CanInteract(path)
    /\ Begin("drop", "callback", path, start, end, allDay,
             handleEventDrop(startDateProp, endDateProp, allDayProperty,
                             start, end, allDay))

\* The onEventResize prop, called with every argument the adapter declares
OnEventResize(path, start, end, allDay) ==
    /\ CanInteract(path)
    /\ Begin("resize", "callback", path, start, end, allDay,
             handleEventResize(startDateProp, endDateProp, allDayProperty,
                               start, end, allDay))

\* The host runs the next transaction of the write-back: the callback's
\* writes reach the note in one step.
TxCommit ==
    /\ wb.pc = "awaitTx"
    /\ LET r == frontmatterCallback(frontmatter[wb.path], wb, endDateProp,
                                    Head(wb.plan))
           rest == Tail(wb.plan)
       IN  /\ frontmatter' = [frontmatter EXCEPT ![wb.path] = r.fm]
           /\ wb' = IF rest = <<>>
                    THEN Settled([wb EXCEPT !.pc = "idle", !.plan = rest,
                                            !.outcome = "written",
                                            !.endPropAtTx = endDateProp,
                                            !.written = @ \cup r.written],
                                 TRUE)
                    ELSE [wb EXCEPT !.plan = rest, !.txCalls = @ + 1,
                                    !.endPropAtTx = endDateProp,
                                    !.written = @ \cup r.written]
    /\ UNCHANGED <<fmBefore, writeBacks, phase, cfgVars, data, entries,
                   domVars, timerVars, creates, lastPass, histVars, viewVars, svcVars, uiVars>>

\* The host rejects the transaction: the note is left as it was.
TxReject ==
    /\ wb.pc = "awaitTx"
    /\ wb' = Settled([wb EXCEPT !.pc = "idle", !.plan = <<>>,
                                !.outcome = "failed"], FALSE)
    /\ UNCHANGED <<frontmatter, fmBefore, writeBacks, phase, cfgVars, data,
                   entries, domVars, timerVars, creates, lastPass, histVars,
                   viewVars, svcVars, uiVars>>

(***************************************************************************)
(* The write-back specification.                                           *)
(***************************************************************************)
\* A record with a date under either start binding.
RecW == Rec("w.md", VDate(DateA), VDate(DateA), VDate(DateB), VString)

WriteConfigs ==
    {[startDate |-> NoteStart, endDate |-> NoteEnd,
      titleProperty |-> NULL, allDayProperty |-> NULL],
     [startDate |-> NoteStart, endDate |-> NULL,
      titleProperty |-> NULL, allDayProperty |-> NULL],
     [startDate |-> NoteStart, endDate |-> FormulaEnd,
      titleProperty |-> NULL, allDayProperty |-> NULL],
     [startDate |-> FormulaStart, endDate |-> NoteEnd,
      titleProperty |-> NULL, allDayProperty |-> NULL],
     [startDate |-> NoteStart, endDate |-> NoteEnd,
      titleProperty |-> NULL, allDayProperty |-> FormulaAllDay]}

\* (start, end) of the interactions: 90 minutes; no time at all; end before
\* start; end less than half a minute after start; 90 minutes and at least
\* half a minute; no end; over midnight; the same moment on the next day.
DatePairs ==
    {<<DateA, DateB>>, <<DateA, DateA>>, <<DateC, DateB>>,
     <<DateA, DateASub>>, <<DateA, DateBHalf>>, <<DateC, NoDate>>,
     <<DateA, DateC>>, <<DateC, DateC>>}

\* (start, end) of the resizes: 90 minutes; no time at all; no end.
ResizePairs == {<<DateA, DateB>>, <<DateA, DateA>>, <<DateC, NoDate>>}

AllDayArgs == {"undefined", "true", "false"}

\* (start, end) the widget gives for an event dropped on the all-day row:
\* midnight of 2024-03-02, with no end or with the next midnight.
AllDayPairs == {<<At(1, 0, 0, 0), NoDate>>, <<At(1, 0, 0, 0), At(2, 0, 0, 0)>>}

\* The note starts with a duration of 30 minutes in its frontmatter.
InitWrite == InitWith({FNum(30)})

NextWrite ==
    \/ OnLoad
    \/ \E cfg \in WriteConfigs : OnDataUpdated(cfg, <<RecW>>)
    \/ CommitRender
    \/ \E pr \in DatePairs \cup {<<NoDate, DateB>>} :
         HandleDrop(RecW.path, pr[1], pr[2], "false")
    \/ \E pr \in AllDayPairs : HandleDrop(RecW.path, pr[1], pr[2], "true")
    \/ \E pr \in ResizePairs \cup {<<NoDate, DateB>>} :
         HandleResize(RecW.path, pr[1], pr[2])
    \/ \E pr \in DatePairs, allDay \in AllDayArgs :
         OnEventDrop(RecW.path, pr[1], pr[2], allDay)
    \/ \E pr \in ResizePairs, allDay \in AllDayArgs :
         OnEventResize(RecW.path, pr[1], pr[2], allDay)
    \/ TxCommit
    \/ TxReject

SpecWrite == InitWrite /\ [][NextWrite]_vars

(***************************************************************************)
(* The extraction specification: every binding of the start, end and title *)
(* properties over every result set of the sample records.  A file change  *)
(* is reported while no refresh is pending; bursts of them are Spec's.     *)
(***************************************************************************)
ExtractConfigs ==
    Configs({NULL, NoteStart, FormulaStart}, {NULL, NoteEnd},
            {NULL, NoteTitle}, {NULL})

\* The host reports a new result set or a new view configuration, one at
\* a time (the first report brings both).
OneChange(cfg, d) ==
    \/ ~data.defined
    \/ d = data.data
    \/ /\ cfg.startDate = startDateProp
       /\ cfg.endDate = endDateProp
       /\ cfg.titleProperty = titleProp

NextExtract ==
    \/ OnLoad
    \/ \E cfg \in ExtractConfigs, d \in ResultSets(RecordPool) :
         OneChange(cfg, d) /\ OnDataUpdated(cfg, d)
    \/ OnResize
    \/ \E r \in RecordPool : timers = {} /\ FileChange(r.path)
    \/ Tick
    \/ \E t \in timers : RefreshFire(t)
    \/ OnUnload

SpecExtract == Init /\ [][NextExtract]_vars

(***************************************************************************)
(* Properties.                                                             *)
(***************************************************************************)
ExtractionPasses == {"update", "update-threw", "refresh", "refresh-threw"}

\* C1: after every extraction pass (updateCalendar and the debounced
\* callback) every entry of the working set has a concrete start date, and
\* it is the date the record's start-date property holds: a record whose
\* start property is absent, is no date value or throws is not in the set.
C1_EntriesHaveStart ==
    /\ \A i \in 1..Len(entries) : entries[i].startDate # NoDate
    /\ lastPass \in ExtractionPasses =>
         \A i \in 1..Len(entries) :
            \E j \in 1..Len(data.data) :
               /\ data.data[j].path = entries[i].path
               /\ getValue(data.data[j], startDateProp)
                    = VDate(entries[i].startDate)

\* A debounced pass kept one record and left out one whose start throws.
C1_Witness ==
    /\ lastPass = "refresh"
    /\ Len(entries) = 1
    /\ \E j \in 1..Len(data.data) :
          getValue(data.data[j], startDateProp).k = "throws"

\* The frontmatter of the note of the latest write-back, now and when the
\* write-back began.
WbNote == frontmatter[wb.path]
WbNoteBefore == fmBefore[wb.path]

\* The end is written: a new end came, and an end-date note property was
\* bound when the write-back began and when its transaction ran.
WbEndWritten ==
    /\ wb.newEnd # NoDate
    /\ wb.endField # NULL
    /\ wb.endPropAtTx # NULL

\* C2 (amended): a write-back that writes the end sets `duration` to the
\* difference between the written end and start rounded to the nearest
\* minute (halves up) when that is at least 1 (09:00 to 10:30 gives 90);
\* otherwise, and when the end is not written, it writes no duration.
C2_DurationRounded ==
    wb.outcome = "written" =>
       LET diff == wb.newEnd - wb.newStart
       IN  IF WbEndWritten /\ 2 * diff >= TicksPerMinute
           THEN /\ "duration" \in wb.written
                /\ WbNote["duration"].k = "num"
                /\ LET n == WbNote["duration"].n
                   IN  /\ n >= 1
                       /\ 2 * n * TicksPerMinute - TicksPerMinute <= 2 * diff
                       /\ 2 * diff < 2 * n * TicksPerMinute + TicksPerMinute
           ELSE /\ "duration" \notin wb.written
                /\ WbNote["duration"] = WbNoteBefore["duration"]

\* 09:00 to 10:30 was written back with a duration of 90.
C2_Witness ==
    /\ wb.outcome = "written"
    /\ wb.newStart = DateA
    /\ wb.newEnd = DateB
    /\ WbNote["duration"] = FNum(90)

\* C2 as stated: a write-back that is given a start and a later end sets
\* `duration` to the whole minutes between them; when the difference is
\* zero or negative it writes no duration.
C2_Original ==
    (wb.outcome = "written" /\ wb.argStart # NoDate /\ wb.argEnd # NoDate) =>
       LET diff == wb.argEnd - wb.argStart
       IN  IF diff > 0
           THEN /\ "duration" \in wb.written
                /\ \E n \in 0..(2 * TicksPerDay) :
                      /\ WbNote["duration"] = FNum(n)
                      /\ n * TicksPerMinute - TicksPerMinute < diff
                      /\ diff < n * TicksPerMinute + TicksPerMinute
           ELSE "duration" \notin wb.written

\* The text formatDateTimeForFrontmatter gives for 00:00 of the day of t.
MidnightText(t) == FStr(formatDateTimeForFrontmatter(t - (t % TicksPerDay)))

AllDayDropWritten ==
    /\ wb.kind = "drop"
    /\ wb.allDay = "true"
    /\ wb.outcome = "written"

\* C3 (amended): an all-day drop that is written back writes the start
\* field at local midnight of the new start's day; it writes the end field,
\* at local midnight of the new end's day, exactly when a new end is
\* supplied and an end-date property is bound; it sets the all-day field
\* to true exactly when the all-day property is a note property; and it
\* writes no duration when no end is supplied.
C3_AllDayDrop ==
    AllDayDropWritten =>
       /\ WbNote[wb.startField] = MidnightText(wb.argStart)
       /\ IF wb.argEnd # NoDate /\ wb.endField # NULL /\ wb.endPropAtTx # NULL
          THEN WbNote[wb.endField] = MidnightText(wb.argEnd)
          ELSE /\ wb.written \cap {"end"} = {}
               /\ WbNote["end"] = WbNoteBefore["end"]
       /\ IF wb.allDayField # NULL
          THEN WbNote[wb.allDayField] = FBool(TRUE)
          ELSE WbNote["allDay"] = WbNoteBefore["allDay"]
       /\ wb.argEnd = NoDate => "duration" \notin wb.written

\* An all-day drop at 13:45 without an end was written back.
C3_Witness ==
    /\ AllDayDropWritten
    /\ wb.argStart = DateC
    /\ wb.argEnd = NoDate
    /\ "allDay" \in wb.written

\* C3 as stated: an all-day drop writes both the start and the end field at
\* local midnight and the bound all-day field, and no duration if no end
\* was supplied.
C3_Original ==
    AllDayDropWritten =>
       /\ WbNote[wb.startField] = MidnightText(wb.argStart)
       /\ "end" \in wb.written
       /\ \E t \in {wb.argStart, wb.argEnd} \ {NoDate} :
             WbNote["end"] = MidnightText(t)
       /\ wb.allDayField # NULL => WbNote[wb.allDayField] = FBool(TRUE)
       /\ wb.argEnd = NoDate => "duration" \notin wb.written

\* C4: a resize that carries no end date is rejected: processFrontMatter
\* is not called, no field of any note changes, and the adapter logs its
\* warning and nothing else (the component does not even call the adapter).
C4_ResizeWithoutEnd ==
    (wb.kind = "resize" /\ wb.argEnd = NoDate) =>
       /\ wb.pc = "idle"
       /\ wb.txCalls = 0
       /\ wb.written = {}
       /\ frontmatter = fmBefore
       /\ wb.via = "callback" =>
            wb.outcome = "rejected" /\ wb.log = {WarnResizeNoEnd}
       /\ wb.via = "component" =>
            wb.outcome = "notcalled" /\ wb.log = {}

\* handleEventResize was called without an end.
C4_Witness ==
    /\ wb.kind = "resize"
    /\ wb.via = "callback"
    /\ wb.argEnd = NoDate
    /\ wb.outcome = "rejected"

\* C5: every update that is written back calls processFrontMatter exactly
\* once, and the note changes only in the one step in which that
\* transaction runs, which applies every write of the update: no state of
\* the note holds only some of them.
C5_SingleTransaction ==
    /\ [](wb.txCalls = IF wb.outcome \in {"pending", "written", "failed"}
                       THEN 1 ELSE 0)
    /\ [][frontmatter' # frontmatter =>
            /\ wb.pc = "awaitTx"
            /\ wb'.pc = "idle"
            /\ wb'.outcome = "written"
            /\ frontmatter' =
                 [frontmatter EXCEPT ![wb.path] =
                    frontmatterCallback(frontmatter[wb.path], wb,
                                        endDateProp, AllWrites).fm]]_vars

\* One transaction wrote start, end, duration and the all-day field.
C5_Witness ==
    /\ wb.outcome = "written"
    /\ wb.txCalls = 1
    /\ wb.written = {"start", "end", "duration", "allDay"}

\* C6: when the transaction of a drag or resize made in the component
\* rejects, the component reverts once, the transaction is not called
\* again and the note is unchanged; when it succeeds nothing is reverted.
C6_RevertOnFailure ==
    wb.via = "component" =>
       /\ wb.reverts <= 1
       /\ wb.outcome = "failed" =>
            /\ wb.pc = "idle"
            /\ wb.reverts = 1
            /\ wb.visual = "reverted"
            /\ wb.txCalls = 1
            /\ frontmatter = fmBefore
       /\ wb.outcome = "written" =>
            wb.reverts = 0 /\ wb.visual = "moved"

\* A drop made in the component failed in its transaction.
C6_Witness ==
    /\ wb.via = "component"
    /\ wb.kind = "drop"
    /\ wb.outcome = "failed"
    /\ wb.reverts = 1

\* C7 as stated: a drag or resize made in the component whose start or end
\* property is not a note property is aborted: no transaction, no change
\* of the note, and the visual change is reverted.
C7_AbortReverts ==
    (wb.via = "component" /\ wb.outcome = "aborted") =>
       /\ wb.txCalls = 0
       /\ frontmatter = fmBefore
       /\ wb.reverts = 1
       /\ wb.visual = "reverted"

\* C8: at most one refresh timer is pending; a burst of notifications,
\* each less than 120 ms after the one before, causes at most one
\* debounced pass, and a debounced pass runs no sooner than 120 ms after
\* the latest notification.
C8_OneTimerOnePass ==
    /\ Cardinality(timers) <= 1
    /\ passesInBurst <= 1
    /\ refreshDelay >= DebounceMs

\* A burst of two notifications was followed by its one pass.
C8_Witness ==
    /\ notifsInBurst >= 2
    /\ passesInBurst = 1
    /\ lastPass = "refresh"
    /\ timers = {}

\* C9: onunload cancels the pending refresh timer, and once the view is
\* unloaded no timer is pending and no debounced callback has run.
C9_NoRefreshAfterUnload ==
    /\ ~afterUnload.refreshRan
    /\ phase = "unloaded" => timers = {} /\ refreshTimeout = NoTimeout

\* The view was unloaded while a refresh was pending.
C9_Witness ==
    /\ phase = "unloaded"
    /\ afterUnload.cancelled

\* C10 as stated: at most one root is mounted, and after onunload no root
\* is mounted and nothing has rendered, also when a creation begun before
\* the teardown completes after it.
C10_NoRootAfterUnload ==
    /\ mountedRoots <= 1
    /\ phase = "unloaded" =>
         /\ root = NULL
         /\ mountedRoots = 0
         /\ ~pendingProps.set
         /\ ~afterUnload.mounted

\* C11 as stated: once onDataUpdated has found no start-date property
\* bound, the empty-state prompt is shown and no root is mounted or being
\* rendered until the next onDataUpdated, whatever else runs; and every
\* onDataUpdated that found one bound has rendered the calendar.
C11_EmptyStateHeld ==
    /\ (phase = "loaded" /\ data.defined /\ startDateProp = NULL) =>
         /\ root = NULL
         /\ mountedRoots = 0
         /\ ~pendingProps.set
         /\ emptyPrompt
    /\ lastPass = "update" => root # NULL

\* Integers around the range of the condense level.
LevelRange == (0 - 20)..(MAX_CONDENSE_LEVEL + 20)

\* A level brought into [0, 220], case by case.
Clamped(x) ==
    CASE x < 0 -> 0
      [] x > 220 -> 220
      [] OTHER -> x

\* C12: normalizeCondenseLevel maps every integer into [0, 220] (below 0
\* to 0, above 220 to 220, the others unchanged) and is idempotent; the
\* adapter's condense level is within [0, 220] in every state.
C12_CondenseClamped ==
    /\ \A x \in LevelRange :
          /\ normalizeCondenseLevel(x) \in 0..220
          /\ normalizeCondenseLevel(x) = Clamped(x)
          /\ normalizeCondenseLevel(normalizeCondenseLevel(x))
               = normalizeCondenseLevel(x)
    /\ condenseLevel \in 0..220

\* loadConfig read a level of 221 from the view configuration and the
\* adapter holds 220.
C12_Witness ==
    /\ lastPass # "none"
    /\ config.condenseLevel = Num(221)
    /\ condenseLevel = 220

\* A step of onDataUpdated (loadConfig): the one step that leaves the
\* view configuration and the cache alone and changes the adapter.
LoadConfigStep ==
    /\ config' = config
    /\ storage' = storage
    /\ <<data, cfgVars, lastPass, condenseLevel, minHour, maxHour>>'
         # <<data, cfgVars, lastPass, condenseLevel, minHour, maxHour>>

\* C13: after loadConfig the condense level is the clamped value of the
\* view configuration if one is set; otherwise the clamped cached value if
\* one is stored and parseInt reads a number from it; otherwise 80.
C13_CondensePrecedence ==
    [][LoadConfigStep =>
         condenseLevel' =
            IF config.condenseLevel # Undefined
            THEN Clamped(config.condenseLevel.n)
            ELSE IF storage # NoItem /\ parseInt(storage.s) # NaN
            THEN Clamped(parseInt(storage.s).n)
            ELSE 80]_vars

\* loadConfig took the level from the cache, which holds "150".
C13_Witness ==
    /\ lastPass # "none"
    /\ config.condenseLevel = Undefined
    /\ storage = Item(<<"1", "5", "0">>)
    /\ condenseLevel = 150

\* C14 as stated: once the user has chosen a level with the slider, the
\* cached level (what getCondenseLevelFromStorage reads) is that level.
C14_SliderUpdatesCache ==
    lastZoom # Undefined =>
       /\ storage # NoItem
       /\ parseInt(storage.s) = lastZoom
       /\ getCondenseLevelFromStorage(storage) = lastZoom.n

\* The props of the latest render of the calendar: pending, or committed.
LatestProps == IF pendingProps.set THEN pendingProps ELSE ui

\* Property identifiers of note properties and of formula properties.
NoteIds == {NoteStart, NoteEnd, NoteTitle, NoteAllDay}
FormulaIds == {FormulaStart, FormulaEnd, FormulaAllDay}

\* C15: the calendar is rendered editable if and only if the start-date
\* property is bound to a note property and the end-date property is
\* unbound or a note property; a formula start or end gives editable =
\* false.
C15_EditableIff ==
    lastPass = "update" =>
       /\ LatestProps.set
       /\ LatestProps.editable <=>
            /\ startDateProp \in NoteIds
            /\ endDateProp = NULL \/ endDateProp \in NoteIds
       /\ (startDateProp \in FormulaIds \/ endDateProp \in FormulaIds) =>
            ~LatestProps.editable

\* The calendar was rendered read-only for a note start and a formula end.
C15_Witness ==
    /\ lastPass = "update"
    /\ pendingProps.set
    /\ ~pendingProps.editable
    /\ startDateProp = NoteStart
    /\ endDateProp = FormulaEnd

\* The seconds since midnight an H:MM[:SS] string stands for.
SecondsOf(s) ==
    LET h == DigitRun(s, 1, 0)
        m == DigitRun(s, h.next + 1, 0)
        sec == IF m.next <= Len(s) THEN DigitRun(s, m.next + 1, 0).n ELSE 0
    IN  3600 * h.n + 60 * m.n + sec

\* C16 as stated: each hour-window value is empty or of the form
\* HH:MM[:SS], and the hour window the calendar is rendered with is the
\* configured one when it is set and valid, else 00:00 to 24:00.
C16_HourWindowRendered ==
    /\ minHour = <<>> \/ timeRegexTest(minHour)
    /\ maxHour = <<>> \/ timeRegexTest(maxHour)
    /\ (lastPass = "update" /\ LatestProps.set) =>
         /\ SecondsOf(slotMinTime(LatestProps))
              = SecondsOf(getSlotRange(minHour, maxHour).min)
         /\ SecondsOf(slotMaxTime(LatestProps))
              = SecondsOf(getSlotRange(minHour, maxHour).max)

\* C17 as stated: each entry maps to exactly one event with id = the
\* record's path, start = the entry's start, end = the entry's end or
\* start + 60 minutes when there is none, and allDay true if and only if
\* start and end both fall exactly on midnight.
C17_EventMapping ==
    /\ Len(events(entries)) = Len(entries)
    /\ \A i \in 1..Len(entries) :
          LET c == entries[i]
              e == events(entries)[i]
          IN  /\ e.id = c.path
              /\ e.start = c.startDate
              /\ e.end = IF c.endDate # NoDate THEN c.endDate
                         ELSE c.startDate + 60 * TicksPerMinute
              /\ e.allDay <=> /\ e.start % TicksPerDay = 0
                              /\ e.end % TicksPerDay = 0

(***************************************************************************)
(* C18.  A createEvent call whose title prompt was cancelled, or was       *)
(* answered with an empty or whitespace-only title, has returned null, has *)
(* read no template and has chosen no path, and the vault's files are      *)
(* those that were there when it was called.                               *)
(***************************************************************************)
NoTitleGiven == ce.typed = Undefined \/ trim(ce.typed.text) = <<>>

C18_NoTitleNoEffect ==
    (ce.pc \notin {"idle", "prompt"} /\ NoTitleGiven) =>
        /\ ce.pc = "done"
        /\ ce.result = "null"
        /\ ce.reads = 0
        /\ ce.path = <<>>
        /\ ce.content = <<>>
        /\ files = ce.before

\* A whitespace-only title was entered while a template file was there to
\* be read, and the call has returned null.
C18_Witness ==
    /\ ce.pc = "done"
    /\ ce.typed = Text(<<Space, Space>>)
    /\ ce.result = "null"
    /\ templatePath # NULL
    /\ templateFile.exists

(***************************************************************************)
(* C19.  The path createEvent chooses for title T is the first of `T.md`,  *)
(* `T D.md`, `T D 1.md`, `T D 2.md`, ... that did not exist when it was    *)
(* chosen, D being the local date of the selection's start; it names no    *)
(* file that existed then; and no step removes or rewrites a file of the   *)
(* vault.  (The claim as stated takes D to be today's date.)               *)
(***************************************************************************)
\* The k-th path of the order, for the date suffix of `date`.
Candidate(title, date, k) ==
    IF k = 0 THEN basePath(title)
    ELSE IF k = 1 THEN datedPath(title, date)
    ELSE countedPath(title, date, k - 1)

\* The first path of the order that is not among `existing`.
FirstFree(title, date, existing) ==
    LET Free(k) == Candidate(title, date, k) \notin existing
        first == CHOOSE k \in 0..Cardinality(existing) :
                   Free(k) /\ \A j \in 0..(k - 1) : ~Free(j)
    IN  Candidate(title, date, first)

PathChosen == ce.path # <<>>

NeverOverwrites == [][files \subseteq files']_vars

C19_FirstFreePath ==
    /\ [](PathChosen =>
            /\ ce.path = FirstFree(safeTitleOf(ce.title), ce.start, ce.seen)
            /\ ce.path \notin ce.seen)
    /\ NeverOverwrites

\* The title, its dated path and the first counted path were taken: the
\* note was created at `Meeting 2024-03-02 2.md`.
C19_Witness ==
    /\ ce.result = "file"
    /\ ce.seen = PathsOf(Existing({basePath(Meeting),
                                   datedPath(Meeting, At(1, 0, 0, 0)),
                                   countedPath(Meeting, At(1, 0, 0, 0), 1)}))
    /\ ce.path = countedPath(Meeting, At(1, 0, 0, 0), 2)
    /\ ce.path \in PathsOf(files)

\* The day the behaviours run on: 2024-03-01.
Today == At(0, 0, 0, 0)

\* The claim as stated: the date suffix is today's date.
C19_Original ==
    /\ [](PathChosen =>
            /\ ce.path = FirstFree(safeTitleOf(ce.title), Today, ce.seen)
            /\ ce.path \notin ce.seen)
    /\ NeverOverwrites

(***************************************************************************)
(* C20.  The content createEvent builds from the template it loaded: when  *)
(* the template begins with a frontmatter block, the note's frontmatter    *)
(* has every template key that is not a computed field with its template   *)
(* value, has the computed fields (title, bound start and end dates,       *)
(* all-day flag) with their computed values, and the note's body is the    *)
(* template's body; when the template has no frontmatter block, the note   *)
(* is a frontmatter block with the computed fields followed by the raw     *)
(* template text.                                                          *)
(***************************************************************************)
\* A frontmatter block as a reader of the note sees it: a first line of
\* three dashes, closed by the next line that is three dashes and nothing
\* else.
IsClosingLine(s, i) ==
    /\ s[i] = Dashes
    /\ s[i - 1] = Newline
    /\ i = Len(s) \/ s[i + 1] = Newline

BlockEnd(s) ==
    CHOOSE i \in 3..Len(s) :
        IsClosingLine(s, i) /\ \A j \in 3..(i - 1) : ~IsClosingLine(s, j)

HasFrontmatter(s) ==
    /\ Len(s) >= 3
    /\ s[1] = Dashes
    /\ s[2] = Newline
    /\ \E i \in 3..Len(s) : IsClosingLine(s, i)

FrontmatterOf(s) == parseYaml(trim(SubSeq(s, 2, BlockEnd(s) - 1)))
AfterBlock(s) == SubSeq(s, BlockEnd(s) + 1, Len(s))
BodyOf(s) == trimStart(AfterBlock(s))
PairsOf(obj) == {obj[i] : i \in 1..Len(obj)}

\* The computed fields of the call: the title, the start and end under the
\* note properties they are bound to, the all-day flag.
ComputedFields ==
    LET wholeDays == ce.start % TicksPerDay = 0 /\ ce.end % TicksPerDay = 0
    IN  {[key |-> "title", value |-> safeTitleOf(ce.title)]}
          \cup (IF getNoteField(startDateProp) # NULL
                THEN {[key |-> getNoteField(startDateProp),
                       value |-> <<Stamp(formatDateTimeForFrontmatter(
                                             ce.start))>>]}
                ELSE {})
          \cup (IF getNoteField(endDateProp) # NULL
                THEN {[key |-> getNoteField(endDateProp),
                       value |-> <<Stamp(formatDateTimeForFrontmatter(
                                             ce.end))>>]}
                ELSE {})
          \cup {[key |-> IF getNoteField(allDayProperty) # NULL
                         THEN getNoteField(allDayProperty) ELSE "allDay",
                  value |-> <<Word(IF wholeDays THEN "true" ELSE "false")>>]}

ContentBuilt == ce.pc \in {"creating", "done"} /\ ce.content # <<>>

LoadedText == IF ce.template.loaded THEN ce.template.text ELSE <<>>

C20_TemplateMerged ==
    ContentBuilt =>
        /\ HasFrontmatter(ce.content)
        /\ ComputedFields \subseteq PairsOf(FrontmatterOf(ce.content))
        /\ IF HasFrontmatter(LoadedText)
           THEN /\ \A f \in PairsOf(FrontmatterOf(LoadedText)) :
                     f.key \in {c.key : c \in ComputedFields}
                        \/ f \in PairsOf(FrontmatterOf(ce.content))
                /\ BodyOf(ce.content) = BodyOf(LoadedText)
           ELSE AfterBlock(ce.content) = <<Newline, Newline>> \o LoadedText

(***************************************************************************)
(* C21.  For every input, parseStyleMapping returns a map with every       *)
(* default key, and a default key has a value other than its default only  *)
(* when the input supplies a non-empty value for it (keys lower-cased);    *)
(* "low:#111111; high:#222222" overrides low and high only.  The maps of   *)
(* the plugin and of every render hold all default keys.                   *)
(***************************************************************************)
KeysOf(map) == {map[i].key : i \in 1..Len(map)}
ValueOf(map, key) == (CHOOSE e \in PairsOf(map) : e.key = key).value

\* The input has a non-empty value for the key, written in any case.
Supplies(input, key) ==
    IF IsFalsy(input) THEN FALSE
    ELSE IF input.k = "object"
    THEN \E i \in 1..Len(input.entries) :
           /\ toLowerCase(input.entries[i].key) = key
           /\ input.entries[i].value.k = "string"
           /\ input.entries[i].value.text # <<>>
    ELSE LET segs == split(StringOf(input), {Comma, Semicolon, Newline})
         IN  \E i \in 1..Len(segs) :
               LET parts == split(segs[i], {Colon})
               IN  /\ Len(parts) >= 2
                   /\ toLowerCase(trim(parts[1])) = key
                   /\ parts[2] # <<>>

HoldsDefaults(map, defaults) == KeysOf(defaults) \subseteq KeysOf(map)

MergedOverDefaults(input, defaults) ==
    LET map == parseStyleMapping(input, defaults)
    IN  /\ HoldsDefaults(map, defaults)
        /\ \A d \in PairsOf(defaults) :
              ValueOf(map, d.key) # d.value => Supplies(input, d.key)

C21_DefaultsKept ==
    /\ \A input \in StyleInputs :
         MergedOverDefaults(input, DEFAULT_PRIORITY_COLOR_MAP)
    /\ \A input \in StatusInputs :
         MergedOverDefaults(input, DEFAULT_STATUS_STYLE_MAP)
    /\ parseStyleMapping(LowHigh, DEFAULT_PRIORITY_COLOR_MAP) =
         <<Entry("low", "#111111"), Entry("normal", "#60a5fa"),
           Entry("medium", "#facc15"), Entry("high", "#222222")>>
    /\ HoldsDefaults(settings.priorityColors, DEFAULT_PRIORITY_COLOR_MAP)
    /\ HoldsDefaults(settings.statusStyles, DEFAULT_STATUS_STYLE_MAP)
    /\ \A p \in {pendingProps, ui} :
         p.set =>
           /\ HoldsDefaults(p.priorityColorMap, DEFAULT_PRIORITY_COLOR_MAP)
           /\ HoldsDefaults(p.statusStyleMap, DEFAULT_STATUS_STYLE_MAP)

\* Settings loaded from "low:#111111; high:#222222", then low picked as
\* #000000 and something picked as empty, and the calendar rendered.
C21_Witness ==
    /\ ui.set
    /\ ValueOf(ui.priorityColorMap, Key("low")) = <<Word("#000000")>>
    /\ ValueOf(ui.priorityColorMap, Key("high")) = <<Word("#222222")>>
    /\ ValueOf(ui.priorityColorMap, Key("normal")) = <<Word("#60a5fa")>>
    /\ ValueOf(ui.statusStyleMap, Key("open")) = <<Word("bold")>>

(***************************************************************************)
(* C22.  Every extraction pass completes, whatever the records' property   *)
(* accesses do (throw, or yield a value that is no date) for the start,    *)
(* end and title properties, and its working set is the records with a     *)
(* resolvable start date, in the host's order (while the view is loaded).  *)
(***************************************************************************)
StartResolves(rec) == getValue(rec, startDateProp).k = "date"

ResolvablePaths ==
    LET kept == SelectSeq(data.data, StartResolves)
    IN  [i \in 1..Len(kept) |-> kept[i].path]

C22_PerRecordHandling ==
    (phase = "loaded" /\ lastPass \in ExtractionPasses) =>
        /\ lastPass \in {"update", "refresh"}
        /\ [i \in 1..Len(entries) |-> entries[i].path] = ResolvablePaths

\* calculateSlotZoom on every integer around the range of the level.
SlotZoomAt == [l \in LevelRange |-> calculateSlotZoom(l)]

\* The mapping does not increase from one level of [0, 220] to the next,
\* and a level outside the range gets the value of the nearest bound.
SlotZoomMonotone ==
    \A a \in 0..(MAX_CONDENSE_LEVEL - 1) :
        LeqNum(SlotZoomAt[a + 1], SlotZoomAt[a])

SlotZoomClamps == \A l \in LevelRange : SlotZoomAt[l] = SlotZoomAt[Clamped(l)]

\* C23: calculateSlotZoom(0) is the maximum zoom factor (0.5),
\* calculateSlotZoom(220) is the minimum zoom factor (0.1), the mapping
\* is non-increasing over [0, 220] and inputs outside [0, 220] give the
\* value at the nearest bound; the endpoints are read at the level the
\* component holds when its effect computes the zoom.
C23_SlotZoomEndpoints ==
    /\ SlotZoomMonotone
    /\ SlotZoomClamps
    /\ lastZoom # Undefined =>
          /\ lastZoom.n = 0 => calculateSlotZoom(lastZoom.n) = MAX_SLOT_ZOOM
          /\ lastZoom.n = MAX_CONDENSE_LEVEL =>
                calculateSlotZoom(lastZoom.n) = MIN_SLOT_ZOOM

\* The number a run of decimal digits shows; -1 for any other text.
DigitsOnly(s) ==
    IF s # <<>> /\ \A i \in 1..Len(s) : IsDigit(s[i])
    THEN DigitRun(s, 1, 0).n
    ELSE 0 - 1

\* Days from the first of month m0 of year y0 to the first of the later
\* month m of year y.
RECURSIVE DaysTo(_, _, _, _)
DaysTo(y0, m0, y, m) ==
    IF y0 = y /\ m0 = m THEN 0
    ELSE MonthLen(y0, m0)
           + (IF m0 = 12 THEN DaysTo(y0 + 1, 1, y, m)
              ELSE DaysTo(y0, m0 + 1, y, m))

\* Reading a "YYYY-MM-DD HH:MM" text back: the five numbers at their
\* positions, then new Date(year, month - 1, day, hours, minutes) in local
\* time.  NoDate stands for an invalid date (and for one before the epoch).
parseDateTime(s) ==
    IF Len(s) # 16 \/ s[5] # "-" \/ s[8] # "-" \/ s[11] # " " \/ s[14] # ":"
    THEN NoDate
    ELSE LET year == DigitsOnly(SubSeq(s, 1, 4))
             month == DigitsOnly(SubSeq(s, 6, 7))
             day == DigitsOnly(SubSeq(s, 9, 10))
             hours == DigitsOnly(SubSeq(s, 12, 13))
             minutes == DigitsOnly(SubSeq(s, 15, 16))
         IN  IF \/ year < Epoch.year
                \/ (year = Epoch.year /\ month < Epoch.month)
                \/ month \notin 1..12
                \/ hours \notin 0..23
                \/ minutes \notin 0..59
             THEN NoDate
             ELSE IF day \notin 1..MonthLen(year, month) THEN NoDate
             ELSE At(DaysTo(Epoch.year, Epoch.month, year, month) + day - 1,
                     hours, minutes, 0)

\* Dates around the ends of days, months and years, on and off the minute,
\* the dates of the write-backs among them.
RoundTripDates ==
    {At(d, h, m, sub) : d \in {0, 1, 2, 8, 30, 31, 305, 306, 365},
                        h \in {0, 9, 10, 13, 23}, m \in {0, 5, 30, 45, 59},
                        sub \in {0, 1, (TicksPerMinute + 1) \div 2,
                                 TicksPerMinute - 1}}

\* Formatting t and reading the text back gives t's year, month, day, hour
\* and minute, at second 0.
RoundTrips(t) ==
    LET back == parseDateTime(formatDateTimeForFrontmatter(t))
    IN  /\ back # NoDate
        /\ getFullYear(back) = getFullYear(t)
        /\ getMonth1(back) = getMonth1(t)
        /\ getDate(back) = getDate(t)
        /\ getHours(back) = getHours(t)
        /\ getMinutes(back) = getMinutes(t)
        /\ back % TicksPerMinute = 0

SamplesRoundTrip == \A t \in RoundTripDates : RoundTrips(t)

MenusShown == menu.controllerMenus + menu.defaultMenus

\* C25: a context-menu request whose plugin lookup finds a menu
\* controller that shows its menu is delegated and builds no default
\* menu; every other request (no plugin, no controller, a throwing call)
\* builds the default menu for the entry's file, the link items and then
\* the delete action that asks for confirmation; no request lets an
\* exception out, and every request ends with exactly one menu shown.
C25_OneMenu ==
    menu.path # NULL =>
       /\ ~menu.thrown
       /\ MenusShown = 1
       /\ menu.controllerMenus = 1 <=> menu.gcm = "shows"
       /\ menu.controllerMenus = 1 => menu.items = <<>>
       /\ menu.defaultMenus = 1 =>
             /\ Len(menu.items) = 2
             /\ menu.items[1].kind = "link" /\ menu.items[1].path = menu.path
             /\ menu.items[2].onClick = "promptForDeletion"
             /\ menu.items[2].warning
             /\ menu.items[2].path = menu.path

\* A delegation that threw ended with the default menu.
C25_Witness ==
    /\ menu.path = RecA.path
    /\ menu.gcm = "throws"
    /\ menu.log = {ErrGcmMenu}
    /\ menu.defaultMenus = 1
    /\ menu.controllerMenus = 0

\* A notification of a tracked file arrives.
Notified ==
    \E r \in LifeRecords :
        hasEntryForFile(entries, r.path) /\ FileChange(r.path)

\* A debounced refresh is scheduled and the view is loaded.
RefreshPending == phase = "loaded" /\ refreshTimeout # NoTimeout

\* The debounced pass has just run: the working set is the extraction of
\* the current result set, a render was issued, nothing is scheduled.
RefreshedLatest ==
    /\ lastPass = "refresh"
    /\ refreshTimeout = NoTimeout
    /\ timers = {}
    /\ data.defined
    /\ entries = ExtractEntries(data.data, startDateProp, endDateProp,
                                titleProp).entries
    /\ root # NULL
    /\ passesInBurst = 1

AllDayDragWritten ==
    /\ wb.kind = "drop"
    /\ wb.via = "component"
    /\ wb.eventAllDay = "true"
    /\ wb.outcome = "written"

\* C27: when a drag handled by the component's drop handler makes an event
\* all-day, the adapter's write-back receives the flag, writes both
\* endpoints at local midnight, and writes the bound all-day field with
\* the new flag value.
C27_AllDayDrag ==
    AllDayDragWritten =>
       /\ wb.allDay = wb.eventAllDay
       /\ WbNote[wb.startField] = MidnightText(wb.argStart)
       /\ WbEndWritten => WbNote[wb.endField] = MidnightText(wb.argEnd)
       /\ wb.allDayField # NULL =>
             /\ wb.allDayField \in wb.written
             /\ WbNote[wb.allDayField] = FBool(TRUE)

\* What the first event of the prompt gave: the trimmed text, or none.
FirstResult ==
    IF ce.typed = Undefined THEN Undefined ELSE submitted(ce.typed.text)

\* C28: the title prompt resolves exactly once whatever events follow one
\* another: the first event fixes the result (the trimmed title, or
\* none), which is the title createEvent goes on with; later events
\* change nothing; and once it has resolved the focus interval is cleared
\* and the service's modalInput is null.  Until then the call waits.
C28_ResolvesOnce ==
    prompt.modal # "none" =>
       /\ prompt.resolveCalls <= 1
       /\ prompt.resolved <=> prompt.resolveCalls = 1
       /\ prompt.resolved =>
             /\ prompt.value = FirstResult
             /\ ce.title = prompt.value
             /\ ce.pc # "prompt"
             /\ prompt.focusLoop = "cleared"
             /\ ~prompt.modalInput
             /\ prompt.modal = "closed"
       /\ ~prompt.resolved =>
             /\ ce.pc = "prompt"
             /\ prompt.focusLoop = "running"
             /\ prompt.modalInput

\* The prompt resolved with a title, and a further event came after.
C28_Witness ==
    /\ prompt.resolved
    /\ prompt.late
    /\ prompt.value = Text(Meeting)
    /\ prompt.resolveCalls = 1

\* The keys a write-back may write: the bound start, end and all-day
\* fields, and `duration`.
WritableFields ==
    ({wb.startField, wb.endField, wb.allDayField} \ {NULL}) \cup {"duration"}

\* The duration the write-back computes is below one minute.
NoNewDuration ==
    MathRoundDiv(wb.newEnd - wb.newStart, TicksPerMinute) <= 0

\* C29: a write-back changes, in the note it is for, only the bound start
\* field, the bound end field, `duration` and the bound all-day field, and
\* changes no other note; when it writes no end, or the new duration is
\* zero or negative, the note's `duration` is what it was before.
C29_FrameOfWriteBack ==
    wb.kind # "none" =>
       /\ \A f \in Fields :
             WbNote[f] # WbNoteBefore[f] => f \in WritableFields
       /\ \A p \in DOMAIN frontmatter :
             p # wb.path => frontmatter[p] = fmBefore[p]
       /\ (wb.outcome = "written" /\ (~WbEndWritten \/ NoNewDuration)) =>
             WbNote["duration"] = WbNoteBefore["duration"]

\* An end was written whose duration rounds to zero, and the note kept
\* the duration of 30 minutes it had.
C29_Witness ==
    /\ wb.outcome = "written"
    /\ WbEndWritten
    /\ wb.newEnd = DateASub
    /\ NoNewDuration
    /\ WbNoteBefore["duration"] = FNum(30)
    /\ WbNote["duration"] = FNum(30)
    /\ WbNote[wb.endField] # WbNoteBefore[wb.endField]

(***************************************************************************)
(* C30: two createEvent calls that overlap and are confirmed with the same *)
(* title for the same folder work on distinct paths, and the path each     *)
(* found free with buildUniquePath is still free while its vault.create    *)
(* is pending, so neither creation is rejected for an existing path.       *)
(***************************************************************************)
InFlight(call) == call.pc \in {"template", "creating"}

StillFree(call) == call.pc = "creating" => call.path \notin PathsOf(files)

C30_DistinctPaths ==
    (ce2.pc \notin {"idle", "prompt"} /\ ce2.title = ce.title)
        => /\ (InFlight(ce) /\ InFlight(ce2)) => ce.path # ce2.path
           /\ StillFree(ce)
           /\ StillFree(ce2)
           /\ (ce.result = "file" /\ ce2.result = "file")
                 => ce.path # ce2.path

====
